---------------------------- MODULE Spec2Model ----------------------------
(***************************************************************************)
(* Verification model of ggpk-tool: the .datc64 table decoder              *)
(* (src/src/dat/dat-parser.ts), the GGPK container reader                  *)
(* (src/unnamed/part_002) and the parallel decode worker/driver            *)
(* (src/src/dat/parse-worker.ts, src/src/dat/parallel-parser.ts).          *)
(*                                                                         *)
(* Buffers are sequences of bytes (1-indexed here, 0-based offsets in the  *)
(* code: byte at offset o is buf[o+1]).  64-bit integers are kept as       *)
(* sign + 8-byte magnitude because TLC integers are 32 bits wide.          *)
(***************************************************************************)
EXTENDS Integers, Sequences, FiniteSets, TLC

VARIABLES
    \* ---- DATParser.parse --------------------------------------------------
    buffer,      \* the .datc64 bytes handed to parse
    table,       \* result of getTableSchema: [known, columns]
    pc,          \* position inside parse: "start" | "row" | "col" | "done"
    rowCount,    \* buffer.readUInt32LE(0)
    magicIndex,  \* buffer.indexOf(VARIABLE_DATA_MAGIC, 4)
    rowSize,     \* actualRowSize
    offset,      \* the cursor
    rowStart,    \* offset at which the current row began
    rowIdx,      \* i of the row loop
    colIdx,      \* colIdx of the column loop
    row,         \* values decoded so far for the current row (by column)
    rows,        \* rows emitted so far
    result,      \* what parse returned: [returned, rows, rowCount, error]
    rowStarts,   \* history: offset at which each emitted row was decoded
    colLog,      \* history: per decoded column [row, col, at, value, advance, thrown]
    \* ---- GGPKReader ---------------------------------------------------------
    archive,     \* the archive file: [size, magic, firstRecordOffset, records]
    gpc,         \* position: "idle" | "open" | "traverse" | "indexed" | "failed"
    stack,       \* pending traverse(offset, path) calls, innermost first
    index,       \* the Map buildIndex fills: logical path -> FileRecord
    errorLog,    \* history: offsets whose decode error traverse caught and logged
    visitLog,    \* history: offsets handed to readRecord, in order
    xpc,         \* extractFile: "none" | "chunks" | "done" | "failed"
    xDesc,       \* the FileRecord being extracted
    remaining,   \* extractFile's remaining
    currentOffset, \* extractFile's currentOffset
    written,     \* what was written to the destination: pieces [from, len, short]
    \* ---- parallel-parser.ts (driver) and parse-worker.ts (workers) ----------
    disk,        \* per table: input mtime and size, output JSON existence and mtime
    tables,      \* per table: schema present, I/O outcome, what parse returns
    opts,        \* [useCache, concurrency, schemaLoads, crashes]
    run,         \* which call of the driver this is: 1, 2, ...
    now,         \* the clock that stamps written files
    dpc,         \* driver: "idle" | "start" | "waiting" | "returned" | "rejected"
    batches,     \* the driver's batches (sequences of table names)
    wk,          \* per worker: [st, inbox, parser, idx, results]
    toDriver,    \* per worker: messages posted to the driver, not yet handled
    promise,     \* per worker: runWorkerBatch's promise "pending"|"resolved"|"rejected"
    batchResults, \* per worker: the results its promise resolved with
    completed,   \* the driver's progress counter
    stats,       \* the aggregate the driver returned
    parseLog,    \* history: every parseFile call: the table, its files as found,
                 \* checkCache, the result, whether parsed, whether written
    msgLog,      \* history: per worker, every message sent either way, in order
    \* ---- bundle-extractor.ts -------------------------------------------------
    bx,          \* one call of extractByPattern / extractBundledFiles: its position,
                 \* its arguments, the utility's behaviour and the locals
    \* ---- extraction-pipeline.ts ----------------------------------------------
    pl,          \* one call of runExtractionPipeline: its position, the output
                 \* directory, the surroundings, the locals and the counters
    cu,          \* one call of cleanupExtractedFiles: its position, the directory,
                 \* the unlink calls under way and the counters
    \* ---- backend handleAPI ---------------------------------------------------
    be           \* the backend: its clock, activeOperations, the extract jobs
                 \* under way and what the status endpoint has answered

datVars == <<buffer, table, pc, rowCount, magicIndex, rowSize, offset, rowStart,
             rowIdx, colIdx, row, rows, result, rowStarts, colLog>>

ggpkVars == <<archive, gpc, stack, index, errorLog, visitLog, xpc, xDesc, remaining,
              currentOffset, written>>

parVars == <<disk, tables, opts, run, now, dpc, batches, wk, toDriver, promise, batchResults,
             completed, stats, parseLog, msgLog>>

vars == <<datVars, ggpkVars, parVars, bx, pl, cu, be>>

\* what the actions of one component leave alone
notDatVars == <<ggpkVars, parVars, bx, pl, cu, be>>
notGgpkVars == <<datVars, parVars, bx, pl, cu, be>>
notParVars == <<datVars, ggpkVars, bx, pl, cu, be>>
notBxVars == <<datVars, ggpkVars, parVars, pl, cu, be>>
notPlVars == <<datVars, ggpkVars, parVars, bx, cu, be>>
notCuVars == <<datVars, ggpkVars, parVars, bx, pl, be>>
notBeVars == <<datVars, ggpkVars, parVars, bx, pl, cu>>

----------------------------------------------------------------------------
(* Bytes and integers                                                       *)

Min(a, b) == IF a <= b THEN a ELSE b

\* Node's Buffer.read* throw ERR_OUT_OF_RANGE unless 0 <= off <= length - n
InRange(buf, off, n) == off >= 0 /\ off + n <= Len(buf)

Bytes(buf, off, n) == [k \in 1..n |-> buf[off + k]]

Rep(b, n) == [k \in 1..n |-> b]

\* value of the low four bytes of a little-endian magnitude (needs bs[4] < 128)
MagVal(bs) == bs[1] + 256 * bs[2] + 65536 * bs[3] + 16777216 * bs[4]

\* the magnitude is below 2^31
Fits31(bs) == bs[4] < 128 /\ \A k \in 5..8 : bs[k] = 0

RECURSIVE Inc(_)
Inc(bs) == IF bs = <<>> THEN <<>>
           ELSE IF Head(bs) = 255 THEN <<0>> \o Inc(Tail(bs))
           ELSE <<Head(bs) + 1>> \o Tail(bs)

\* two's complement negation of a little-endian byte string
Negate(bs) == Inc([k \in 1..Len(bs) |-> 255 - bs[k]])

\* a BigInt: sign and 64-bit magnitude
BigOf(neg, mag) == [neg |-> neg, mag |-> mag]

\* BigInt.asIntN(64, x) for x given as its unsigned 64-bit pattern
AsIntN64(bs) == IF bs[8] >= 128 THEN BigOf(TRUE, Negate(bs)) ELSE BigOf(FALSE, bs)

ReadBigInt64LE(buf, off) == AsIntN64(Bytes(buf, off, 8))

ReadUInt32LE(buf, off) == MagVal(Bytes(buf, off, 4))

ReadInt32LE(buf, off) ==
    LET bs == Bytes(buf, off, 4)
    IN  bs[1] + 256 * bs[2] + 65536 * bs[3]
          + 16777216 * (IF bs[4] >= 128 THEN bs[4] - 256 ELSE bs[4])

ReadUInt16LE(buf, off) == buf[off + 1] + 256 * buf[off + 2]

ReadInt16LE(buf, off) ==
    buf[off + 1] + 256 * (IF buf[off + 2] >= 128 THEN buf[off + 2] - 256 ELSE buf[off + 2])

\* little-endian encodings used to build input buffers
U32LE(n) == <<n % 256, (n \div 256) % 256, (n \div 65536) % 256, n \div 16777216>>
I64LE(n) == IF n >= 0 THEN U32LE(n) \o <<0, 0, 0, 0>>
            ELSE Negate(U32LE(-n) \o <<0, 0, 0, 0>>)

----------------------------------------------------------------------------
(* dat-parser.ts: constants                                                 *)

FIELD_SIZES ==
    [t \in {"bool", "i16", "u16", "i32", "u32", "f32", "string", "row",
            "foreignrow", "enumrow", "array"} |->
        CASE t = "bool" -> 1
          [] t \in {"i16", "u16"} -> 2
          [] t \in {"i32", "u32", "f32", "enumrow"} -> 4
          [] t \in {"string", "row"} -> 8
          [] OTHER -> 16]

\* FIELD_SIZES[type] || 8
FieldSize(type) == IF type \in DOMAIN FIELD_SIZES THEN FIELD_SIZES[type] ELSE 8

\* -1n
NULL_ROW == BigOf(TRUE, <<1, 0, 0, 0, 0, 0, 0, 0>>)

\* 0xFFFFFFFFFFFFFFFEn: the literal is the positive BigInt 2^64 - 2
NULL_FOREIGN_ROW == BigOf(FALSE, <<254, 255, 255, 255, 255, 255, 255, 255>>)

\* BigInt.asIntN(64, 0xFEFEFEFEFEFEFEFEn)
NULL_MARKER == AsIntN64(Rep(254, 8))

VARIABLE_DATA_MAGIC == Rep(187, 8)

ArrayLimit == 100000

----------------------------------------------------------------------------
(* Decoded values: [t |-> kind, v |-> payload]                              *)

Null == [t |-> "null", v |-> 0]
Val(t, v) == [t |-> t, v |-> v]

\* Number(bigint): exact while it fits the model's integers, else kept as is
ToNumber(b) == IF Fits31(b.mag)
               THEN Val("num", IF b.neg THEN 0 - MagVal(b.mag) ELSE MagVal(b.mag))
               ELSE Val("big", b)

Ok(value, n) == [ok |-> TRUE, value |-> value, bytesRead |-> n]
Thrown == [ok |-> FALSE, value |-> Null, bytesRead |-> 0]

----------------------------------------------------------------------------
(* DATParser.readString                                                     *)

\* a terminator search that stops at the first zero code unit
RECURSIVE FindEndAtZeroUnit(_, _)
FindEndAtZeroUnit(buf, end) ==
    IF end + 4 <= Len(buf) /\ Bytes(buf, end, 2) # <<0, 0>>
    THEN FindEndAtZeroUnit(buf, end + 2)
    ELSE end

RECURSIVE FindEnd(_, _)
FindEnd(buf, end) ==
    IF end + 4 <= Len(buf) /\ Bytes(buf, end, 4) # <<0, 0, 0, 0>>
    THEN FindEnd(buf, end + 2)
    ELSE end

\* the UTF-16LE code units of buf[from, to)
CodeUnits(buf, from, to) ==
    [k \in 1..((to - from) \div 2) |-> ReadUInt16LE(buf, from + 2 * (k - 1))]

ReadString(buf, off) ==
    IF off >= Len(buf) THEN <<>>
    ELSE CodeUnits(buf, off, FindEnd(buf, off))

----------------------------------------------------------------------------
(* DATParser.readField                                                      *)

\* a row decoder that passes the sentinels through as numbers
ReadRowFieldNoNull(buf, off) == Ok(ToNumber(ReadBigInt64LE(buf, off)), 8)

ReadRowField(buf, off) ==
    LET rid == ReadBigInt64LE(buf, off)
    IN  IF rid = NULL_ROW \/ rid = NULL_MARKER
        THEN Ok(Null, 8)
        ELSE Ok(ToNumber(rid), 8)

ReadForeignRowNulls == {NULL_ROW, NULL_FOREIGN_ROW, NULL_MARKER}

ReadForeignRowField(buf, off) ==
    LET rid == ReadBigInt64LE(buf, off)
    IN  IF rid \in ReadForeignRowNulls
        THEN Ok(Null, 16)
        ELSE Ok(ToNumber(rid), 16)

ReadStringField(buf, off, variableDataStart) ==
    LET strOffset == ReadBigInt64LE(buf, off)
    IN  IF strOffset.neg THEN Ok(Null, 8)
        ELSE IF Fits31(strOffset.mag)
        THEN Ok(Val("str", ReadString(buf, variableDataStart + MagVal(strOffset.mag))), 8)
        ELSE Ok(Val("str", <<>>), 8)   \* far beyond the buffer: readString gives ''

ReadField(buf, off, variableDataStart, type) ==
    CASE type = "bool" ->
            IF InRange(buf, off, 1) THEN Ok(Val("bool", buf[off + 1] # 0), 1) ELSE Thrown
      [] type = "i16" ->
            IF InRange(buf, off, 2) THEN Ok(Val("num", ReadInt16LE(buf, off)), 2) ELSE Thrown
      [] type = "u16" ->
            IF InRange(buf, off, 2) THEN Ok(Val("num", ReadUInt16LE(buf, off)), 2) ELSE Thrown
      [] type \in {"i32", "enumrow"} ->
            IF InRange(buf, off, 4) THEN Ok(Val("num", ReadInt32LE(buf, off)), 4) ELSE Thrown
      [] type = "u32" ->
            IF InRange(buf, off, 4)
            THEN Ok(ToNumber(BigOf(FALSE, Bytes(buf, off, 4) \o <<0, 0, 0, 0>>)), 4)
            ELSE Thrown
      [] type = "f32" ->
            IF InRange(buf, off, 4) THEN Ok(Val("f32", Bytes(buf, off, 4)), 4) ELSE Thrown
      [] type = "string" ->
            IF InRange(buf, off, 8) THEN ReadStringField(buf, off, variableDataStart) ELSE Thrown
      [] type = "row" ->
            IF InRange(buf, off, 8) THEN ReadRowField(buf, off) ELSE Thrown
      [] type = "foreignrow" ->
            IF InRange(buf, off, 8) THEN ReadForeignRowField(buf, off) ELSE Thrown
      [] OTHER ->
            IF InRange(buf, off, 8)
            THEN Ok(Val("bigstr", ReadBigInt64LE(buf, off)), 8)
            ELSE Thrown

----------------------------------------------------------------------------
(* DATParser.readArray                                                      *)

\* a sanity check that forgets the ceiling
CountRejectedNoCeiling(length) == length.neg

\* count > 100000 || count < 0, for count = Number(length)
CountRejected(length) ==
    length.neg \/ ~Fits31(length.mag) \/ MagVal(length.mag) > ArrayLimit

\* the element loop: stops at count elements or when the next element would
\* cross the end of the buffer
ArrayElements(buf, dataOffset, variableDataStart, elementType, count) ==
    LET elementSize == FieldSize(elementType)
        n == Min(count, (Len(buf) - dataOffset) \div elementSize)
    IN  [k \in 1..n |->
            ReadField(buf, dataOffset + (k - 1) * elementSize,
                      variableDataStart, elementType).value]

ReadArray(buf, off, variableDataStart, elementType) ==
    IF ~InRange(buf, off, 16) THEN Thrown
    ELSE
    LET length == ReadBigInt64LE(buf, off)
        arrayOffset == ReadBigInt64LE(buf, off + 8)
        empty == Ok(Val("list", <<>>), 16)
    IN  IF length.mag = Rep(0, 8) \/ arrayOffset.neg THEN empty
        ELSE IF CountRejected(length) THEN empty
        ELSE IF elementType = "array" \/ elementType \notin DOMAIN FIELD_SIZES THEN empty
        ELSE IF ~Fits31(arrayOffset.mag) THEN empty
        ELSE IF variableDataStart + MagVal(arrayOffset.mag) >= Len(buf) THEN empty
        ELSE Ok(Val("list",
                    ArrayElements(buf, variableDataStart + MagVal(arrayOffset.mag),
                                  variableDataStart, elementType, MagVal(length.mag))),
                16)

----------------------------------------------------------------------------
(* DATParser.calculateRowSize, buffer.indexOf                               *)

ColSize(col) == IF col.array THEN 16 ELSE FieldSize(col.type)

RECURSIVE CalculateRowSize(_)
CalculateRowSize(columns) ==
    IF columns = <<>> THEN 0
    ELSE ColSize(Head(columns)) + CalculateRowSize(Tail(columns))

MagicAt(buf, p) ==
    InRange(buf, p, 8) /\ \A k \in 1..8 : buf[p + k] = VARIABLE_DATA_MAGIC[k]

\* buffer.indexOf(VARIABLE_DATA_MAGIC, from): first match at or after from, or -1
RECURSIVE IndexOfMagic(_, _)
IndexOfMagic(buf, from) ==
    IF from + 8 > Len(buf) THEN -1
    ELSE IF MagicAt(buf, from) THEN from
    ELSE IndexOfMagic(buf, from + 1)

----------------------------------------------------------------------------
(* Inputs of parse                                                          *)

MaxRows == 2

Col(type) == [type |-> type, array |-> FALSE]
Arr(type) == [type |-> type, array |-> TRUE]

\* table.columns of the schema tables the decoder is driven with
Schemas ==
    { <<Col("row")>>,
      <<Col("foreignrow")>>,
      <<Col("string"), Col("row")>>,
      <<Col("row"), Col("foreignrow")>>,
      <<Col("i32"), Col("string"), Arr("i32")>>,
      <<Col("string"), Col("string"), Col("string")>>,
      <<Col("bool"), Col("u16"), Col("f32"), Col("enumrow")>>,
      <<Arr("string")>>,
      <<Arr("row")>>,
      <<Arr("foreignrow")>>,
      <<Arr("array")>>,
      <<Col("i32"), Arr("row")>>,
      <<Col("bool"), Arr("row")>>,
      <<Col("string"), Arr("row")>>,
      <<Col("u32"), Col("i16"), Col("array")>>,
      <<Arr("i32"), Col("i32")>> }

\* 8-byte cells a fixed-region row is built from, in a fixed order
Cells8 ==
    << I64LE(-1), I64LE(-2), Rep(254, 8), I64LE(0), I64LE(3), I64LE(8), I64LE(20),
       I64LE(100001) >>

Cells4 == << U32LE(7), Rep(255, 4) >>

\* byte widths of the cells of one row
RowLayouts == { <<4>>, <<8>>, <<8, 8>>, <<4, 8>>, <<4, 8, 8>>, <<8, 8, 8>> }

CellsOf(w) == IF w = 4 THEN Cells4 ELSE Cells8

\* the choices of one cell index per position of a layout
CellChoices(layout) ==
    {c \in [1..Len(layout) -> 1..Len(Cells8)] :
        \A k \in 1..Len(layout) : c[k] <= Len(CellsOf(layout[k]))}

RECURSIVE Flatten(_)
Flatten(ss) == IF ss = <<>> THEN <<>> ELSE Head(ss) \o Flatten(Tail(ss))

\* row r of a buffer: the chosen cells, each moved r places along its cell list
RowImage(layout, choice, r) ==
    Flatten([k \in 1..Len(layout) |->
        CellsOf(layout[k])[((choice[k] - 1 + r) % Len(CellsOf(layout[k]))) + 1]])

\* variable regions (what follows the marker): none, or at offset 8 the code
\* units 'h', 0, 'i' with the 4-byte terminator, followed by three 8-byte
\* cells at offsets 20, 28, 36
VarRegions ==
    { <<>>,
      <<104, 0, 0, 0, 105, 0, 0, 0, 0, 0, 0, 0>>
         \o I64LE(-1) \o Rep(254, 8) \o I64LE(5) }

MakeBuffer(n, layout, choice, var) ==
    U32LE(n) \o Flatten([r \in 1..n |-> RowImage(layout, choice, r - 1)])
             \o VARIABLE_DATA_MAGIC \o var

\* inputs on which parse returns before the row loop
DegenerateBuffers ==
    { <<>>,                                             \* shorter than 4 bytes
      U32LE(0) \o VARIABLE_DATA_MAGIC,                  \* rowCount = 0
      U32LE(1) \o I64LE(3) }                            \* no marker

UnknownTable == [known |-> FALSE, columns |-> <<>>]
KnownTable(columns) == [known |-> TRUE, columns |-> columns]

----------------------------------------------------------------------------
(* DATParser.parse                                                          *)

NoResult == [returned |-> FALSE, rows |-> <<>>, rowCount |-> 0, error |-> ""]
Returned(rs, n, err) == [returned |-> TRUE, rows |-> rs, rowCount |-> n, error |-> err]

DatAt(p, buf, tbl) ==
    /\ buffer = buf
    /\ table = tbl
    /\ pc = p
    /\ rowCount = 0
    /\ magicIndex = -1
    /\ rowSize = 0
    /\ offset = 0
    /\ rowStart = 0
    /\ rowIdx = 0
    /\ colIdx = 0
    /\ row = <<>>
    /\ rows = <<>>
    /\ result = NoResult
    /\ rowStarts = <<>>
    /\ colLog = <<>>

\* parse(buffer, tableName) has just been called
DatStart(buf, tbl) == DatAt("start", buf, tbl)

InitDat ==
    \/ \E n \in 1..MaxRows, layout \in RowLayouts, var \in VarRegions, columns \in Schemas :
         \E choice \in CellChoices(layout) :
            DatStart(MakeBuffer(n, layout, choice, var), KnownTable(columns))
    \/ \E buf \in DegenerateBuffers, columns \in Schemas :
            DatStart(buf, KnownTable(columns))
    \/ \E buf \in DegenerateBuffers \cup {MakeBuffer(1, <<8>>, <<1>>, <<>>)} :
            DatStart(buf, UnknownTable)

\* lines 119-162: table lookup, row count, marker search, observed row size
ParseStart ==
    /\ UNCHANGED notDatVars
    /\ pc = "start"
    /\ LET n == ReadUInt32LE(buffer, 0)
           m == IndexOfMagic(buffer, 4)   \* fixedDataStart = 4
           early(err) == /\ result' = Returned(<<>>, 0, err)
                         /\ pc' = "done"
                         /\ UNCHANGED <<rowCount, magicIndex, rowSize, offset>>
       IN  IF ~table.known THEN early("Unknown table")
           ELSE IF Len(buffer) < 4 THEN early("Buffer too small")
           ELSE IF n = 0 THEN early("")
           ELSE IF m = -1 THEN early("Magic bytes not found")
           ELSE /\ rowCount' = n
                /\ magicIndex' = m
                /\ rowSize' = (m - 4) \div n
                /\ offset' = 4
                /\ pc' = "row"
                /\ UNCHANGED result
    /\ UNCHANGED <<buffer, table, rowStart, rowIdx, colIdx, row, rows, rowStarts, colLog>>

\* lines 165-167: the row loop's test and the start of one row
BeginRow ==
    /\ UNCHANGED notDatVars
    /\ pc = "row"
    /\ rowIdx < rowCount
    /\ row' = <<>>
    /\ rowStart' = offset
    /\ colIdx' = 0
    /\ pc' = "col"
    /\ UNCHANGED <<buffer, table, rowCount, magicIndex, rowSize, offset, rowIdx,
                   rows, result, rowStarts, colLog>>

\* the try block of lines 178-187
DecodeColumn(col, at) ==
    IF col.array
    THEN ReadArray(buffer, at, magicIndex, col.type)
    ELSE ReadField(buffer, at, magicIndex, col.type)

\* the catch block of lines 188-191
ColumnStep(col, at) ==
    LET r == DecodeColumn(col, at)
    IN  IF r.ok THEN [value |-> r.value, advance |-> r.bytesRead, thrown |-> FALSE]
        ELSE [value |-> Null, advance |-> ColSize(col), thrown |-> TRUE]

\* lines 169-192: one iteration of the column loop
ReadColumn ==
    /\ UNCHANGED notDatVars
    /\ pc = "col"
    /\ colIdx < Len(table.columns)
    /\ offset < rowStart + rowSize
    /\ LET s == ColumnStep(table.columns[colIdx + 1], offset)
       IN  /\ row' = Append(row, s.value)
           /\ offset' = offset + s.advance
           /\ colLog' = Append(colLog, [row |-> rowIdx, col |-> colIdx, at |-> offset,
                                        value |-> s.value, advance |-> s.advance, thrown |-> s.thrown])
    /\ colIdx' = colIdx + 1
    /\ UNCHANGED <<buffer, table, pc, rowCount, magicIndex, rowSize, rowStart,
                   rowIdx, rows, result, rowStarts>>

\* a row loop that lets the cursor stay where the last column left it
NextRowOffsetNoReset(start, size, cursor) == cursor

\* line 195: where the cursor stands once a row is finished
NextRowOffset(start, size, cursor) == start + size

\* lines 174-176 and 194-196: leave the column loop, reset the cursor, emit
EndRow ==
    /\ UNCHANGED notDatVars
    /\ pc = "col"
    /\ (colIdx >= Len(table.columns) \/ offset >= rowStart + rowSize)
    /\ offset' = NextRowOffset(rowStart, rowSize, offset)
    /\ rows' = Append(rows, [rid |-> rowIdx, cols |-> row])
    /\ rowStarts' = Append(rowStarts, rowStart)
    /\ rowIdx' = rowIdx + 1
    /\ pc' = "row"
    /\ UNCHANGED <<buffer, table, rowCount, magicIndex, rowSize, rowStart, colIdx,
                   row, result, colLog>>

\* the warning parse attaches when schema and observed row size differ
\* (lines 156-159: the branch is empty)
SizeMismatchWarning(actualRowSize, schemaRowSize) == ""

\* line 202
ParseReturn ==
    /\ UNCHANGED notDatVars
    /\ pc = "row"
    /\ rowIdx >= rowCount
    /\ result' = Returned(rows, rowCount,
                          SizeMismatchWarning(rowSize, CalculateRowSize(table.columns)))
    /\ pc' = "done"
    /\ UNCHANGED <<buffer, table, rowCount, magicIndex, rowSize, offset, rowStart,
                   rowIdx, colIdx, row, rows, rowStarts, colLog>>

NextDat == ParseStart \/ BeginRow \/ ReadColumn \/ EndRow \/ ParseReturn

\* no table decode in progress
IdleDat == DatAt("idle", <<>>, UnknownTable)

----------------------------------------------------------------------------
(* GGPKReader: 64-bit offsets                                               *)

\* a non-negative offset hi * 2^32 + lo
Off(hi, lo) == BigOf(FALSE, U32LE(lo) \o U32LE(hi))

RECURSIVE AddBytes(_, _)
AddBytes(bs, n) ==
    IF bs = <<>> THEN <<>>
    ELSE LET t == Head(bs) + (n % 256)
         IN  <<t % 256>> \o AddBytes(Tail(bs), (n \div 256) + (t \div 256))

\* a 32-bit addition: the carry out of bit 31 and the high word are lost
AddNumber32(b, n) == BigOf(FALSE, AddBytes(SubSeq(b.mag, 1, 4), n) \o <<0, 0, 0, 0>>)

\* offset + BigInt(n) for a non-negative offset and a number n >= 0
AddNumber(b, n) == BigOf(FALSE, AddBytes(b.mag, n))

\* a <= b for little-endian magnitudes of equal length
RECURSIVE MagLE(_, _)
MagLE(a, b) ==
    IF a = <<>> THEN TRUE
    ELSE IF a[Len(a)] # b[Len(b)] THEN a[Len(a)] < b[Len(b)]
    ELSE MagLE(SubSeq(a, 1, Len(a) - 1), SubSeq(b, 1, Len(b) - 1))

----------------------------------------------------------------------------
(* GGPKReader: the archive file                                             *)

CHUNK_SIZE == 50 * 1024 * 1024

\* a record as its fields lie in the file
RawFile(length, name) ==
    [tag |-> "FILE", length |-> length, nameLength |-> Len(name) + 1, name |-> name,
     entries |-> <<>>]
RawDir(length, name, entries) ==
    [tag |-> "PDIR", length |-> length, nameLength |-> Len(name) + 1, name |-> name,
     entries |-> entries]
RawOther(tag, length) ==
    [tag |-> tag, length |-> length, nameLength |-> 0, name |-> "", entries |-> <<>>]

\* bytes a FILE record's header takes: length+tag, nameLength, hash, name
FileHeaderSize(nameLength) == 8 + 4 + 32 + nameLength * 2

\* bytes a PDIR record takes: length+tag, nameLength, entriesCount, hash, name, entries
DirSize(name, entries) == 8 + 4 + 4 + 32 + (Len(name) + 1) * 2 + 12 * Len(entries)

\* the record offsets of the archives the reader is run on
OffRoot == Off(0, 32)
OffA    == Off(0, 256)
OffD    == Off(0, 512)
OffSub  == Off(0, 1024)
OffE    == Off(0, 2048)
OffDeep == Off(0, 4096)
OffG    == BigOf(FALSE, <<236, 255, 255, 255, 0, 0, 0, 0>>)   \* 2^32 - 20
OffH    == Off(1, 8192)
OffOutside  == Off(3, 0)
OffNegative == BigOf(TRUE, <<2, 0, 0, 0, 0, 0, 0, 0>>)

\* the archive file is 2^32 + 2^30 bytes long
ArchiveSize == Off(1, 1024 * 1024 * 1024)

MiB == 1024 * 1024

\* what the second entry of the root directory points at
DVariants == {"file", "free", "junk", "short", "outside", "negative", "overrun"}

\* the record of file H: a payload of 0 or 5 bytes, of exactly 50 MiB, of
\* 50 MiB + 1, of 120 MiB, a record shorter than its own header, and a
\* record (payload 1100 MiB) that runs past the end of the archive
HVariants ==
    { RawFile(FileHeaderSize(6) + n, "h.bin") : n \in {0, 5, 50 * MiB, 50 * MiB + 1, 120 * MiB} }
    \cup { RawFile(20, "h.bin"), RawFile(FileHeaderSize(6) + 1100 * MiB, "h.bin") }

DRecord(v) ==
    CASE v = "file"    -> RawFile(FileHeaderSize(6) + 7, "d.dat")
      [] v = "free"    -> RawOther("FREE", 64)
      [] v = "junk"    -> RawOther("JUNK", 64)
      [] v = "short"   -> RawOther("FILE", 4)
      [] v = "overrun" -> RawDir(48, "bad", <<OffA>>)
      [] OTHER         -> RawOther("FREE", 64)    \* not referenced

DEntry(v) ==
    CASE v = "outside"  -> OffOutside
      [] v = "negative" -> OffNegative
      [] OTHER          -> OffD

MakeArchive(magic, rootName, subName, deepName, dv, h) ==
    [ size |-> ArchiveSize,
      magic |-> magic,
      firstRecordOffset |-> OffRoot,
      records |->
        (OffRoot :> RawDir(DirSize(rootName, <<1, 2, 3>>), rootName, <<OffA, DEntry(dv), OffSub>>))
        @@ (OffA :> RawFile(FileHeaderSize(6) + 5, "a.txt"))
        @@ (OffD :> DRecord(dv))
        @@ (OffSub :> RawDir(DirSize(subName, <<1, 2>>), subName, <<OffE, OffDeep>>))
        @@ (OffE :> RawFile(FileHeaderSize(6) + 5, "b.txt"))
        @@ (OffDeep :> RawDir(DirSize(deepName, <<1, 2>>), deepName, <<OffG, OffH>>))
        @@ (OffG :> RawFile(FileHeaderSize(6) + 9, "g.bin"))
        @@ (OffH :> h) ]

EmptyArchive ==
    [size |-> Off(0, 0), magic |-> "", firstRecordOffset |-> Off(0, 0),
     records |-> (Off(0, 0) :> RawOther("", 0))]

----------------------------------------------------------------------------
(* GGPKReader.readRecord and the record parsers                             *)

Failure == [ok |-> FALSE, type |-> "", offset |-> Off(0, 0), length |-> 0, name |-> "",
            entries |-> <<>>, dataOffset |-> Off(0, 0), dataLength |-> 0]

\* parseFileRecordLazy
ParseFileRecordLazy(off, raw) ==
    LET pos == FileHeaderSize(raw.nameLength)
    IN  [ok |-> TRUE, type |-> "FILE", offset |-> off, length |-> raw.length,
         name |-> raw.name, entries |-> <<>>,
         dataOffset |-> AddNumber(off, pos),
         dataLength |-> raw.length - pos]

\* parseDirectoryRecord: reading an entry beyond the record's bytes throws
ParseDirectoryRecord(off, raw) ==
    IF raw.length < 16
       \/ (raw.entries # <<>>
           /\ 48 + raw.nameLength * 2 + 12 * Len(raw.entries) > raw.length)
    THEN Failure
    ELSE [ok |-> TRUE, type |-> "PDIR", offset |-> off, length |-> raw.length,
          name |-> raw.name, entries |-> raw.entries,
          dataOffset |-> Off(0, 0), dataLength |-> 0]

\* parseFreeRecord
ParseFreeRecord(off, raw) ==
    [ok |-> TRUE, type |-> "FREE", offset |-> off, length |-> raw.length,
     name |-> "", entries |-> <<>>, dataOffset |-> Off(0, 0), dataLength |-> 0]

\* readRecord: a negative position makes readSync throw; a position beyond
\* the end of the file leaves the zero-filled buffer, whose length field is 0
ReadRecord(arch, off) ==
    IF off.neg THEN Failure
    ELSE IF off \notin DOMAIN arch.records THEN Failure
    ELSE LET raw == arch.records[off]
         IN  IF raw.length < 8 THEN Failure
             ELSE CASE raw.tag = "FILE" -> ParseFileRecordLazy(off, raw)
                    [] raw.tag = "PDIR" -> ParseDirectoryRecord(off, raw)
                    [] raw.tag = "FREE" -> ParseFreeRecord(off, raw)
                    [] OTHER -> Failure

----------------------------------------------------------------------------
(* GGPKReader.buildIndex                                                    *)

\* nested traverse calls the call stack has room for; a call nested deeper
\* throws a RangeError before it has read its record
MaxDepth == 5

\* one pending call traverse(offset, path), nested depth calls deep
Frame(off, path, depth) == [offset |-> off, path |-> path, depth |-> depth]

\* line 281: this.readRecord(offset), inside the try of traverse
ReadRecordIn(call) ==
    IF call.depth > MaxDepth THEN Failure ELSE ReadRecord(archive, call.offset)

\* `${path}/${record.name}` unless path is empty
JoinPath(path, name) == IF path # "" THEN path \o "/" \o name ELSE name

\* the path handed to the children of a directory
CleanPath(path, name) == IF name = "ROOT" THEN "" ELSE JoinPath(path, name)

\* index.set(filePath, record)
MapSet(map, key, value) ==
    [k \in DOMAIN map \cup {key} |-> IF k = key THEN value ELSE map[k]]

EmptyMap == [k \in {} |-> Failure]

\* a traversal that lets a record's decode error end the whole walk
AfterRecordErrorAbort(rest) == <<>>

\* the catch of traverse: the error is logged and the caller's loop goes on
AfterRecordError(rest) == rest

GgpkAt(p, arch) ==
    /\ archive = arch
    /\ gpc = p
    /\ stack = <<>>
    /\ index = EmptyMap
    /\ errorLog = <<>>
    /\ visitLog = <<>>
    /\ xpc = "none"
    /\ xDesc = Failure
    /\ remaining = 0
    /\ currentOffset = Off(0, 0)
    /\ written = <<>>

InitGgpk ==
    \/ \E rootName \in {"ROOT", "Data"}, subName \in {"sub", "ROOT"},
          deepName \in {"deep", "ROOT"}, dv \in DVariants, h \in HVariants :
         GgpkAt("open", MakeArchive("GGPK", rootName, subName, deepName, dv, h))
    \/ \E h \in HVariants :
         GgpkAt("open", MakeArchive("XXXX", "ROOT", "sub", "deep", "file", h))

IdleGgpk == GgpkAt("idle", EmptyArchive)

\* a directory at OffH whose only entry points at target
LoopDir(target) == RawDir(DirSize("loop", <<1>>), "loop", <<target>>)

\* the archive in which the root's second entry and the only entry of the
\* directory at OffH point at records that are listed elsewhere as well
LinkedArchive(rootName, second, target) ==
    LET plain == MakeArchive("GGPK", rootName, "sub", "deep", "file", LoopDir(target))
    IN  [plain EXCEPT !.records[OffRoot].entries[2] = second]

\* archives with a directory entry that points at the directory itself
\* (OffRoot from the root, OffH from the directory at OffH), at an ancestor
\* (OffDeep, OffSub, OffRoot from the directory at OffH) or at a record that
\* another directory lists too (OffE from the root, OffG from OffH)
InitGgpkCyclic ==
    \E rootName \in {"ROOT", "Data"}, second \in {OffD, OffRoot, OffE},
       target \in {OffH, OffDeep, OffSub, OffRoot, OffG} :
      GgpkAt("open", LinkedArchive(rootName, second, target))

\* lines 272-277 and 302: readHeader, then the first traverse call
BuildIndexStart ==
    /\ UNCHANGED notGgpkVars
    /\ gpc = "open"
    /\ IF archive.magic # "GGPK"
       THEN gpc' = "failed" /\ UNCHANGED stack
       ELSE gpc' = "traverse" /\ stack' = <<Frame(archive.firstRecordOffset, "", 1)>>
    /\ UNCHANGED <<archive, index, errorLog, visitLog, xpc, xDesc, remaining,
                   currentOffset, written>>

\* lines 279-300: one call of traverse
Traverse ==
    /\ UNCHANGED notGgpkVars
    /\ gpc = "traverse"
    /\ stack # <<>>
    /\ LET call == Head(stack)
           record == ReadRecordIn(call)
       IN  /\ visitLog' = Append(visitLog, call.offset)
           /\ IF ~record.ok
              THEN /\ stack' = AfterRecordError(Tail(stack))
                   /\ errorLog' = Append(errorLog, call.offset)
                   /\ UNCHANGED index
              ELSE /\ UNCHANGED errorLog
                   /\ IF record.type = "PDIR"
                      THEN /\ stack' = [k \in 1..Len(record.entries) |->
                                          Frame(record.entries[k],
                                                CleanPath(call.path, record.name),
                                                call.depth + 1)]
                                       \o Tail(stack)
                           /\ UNCHANGED index
                      ELSE IF record.type = "FILE"
                      THEN /\ index' = MapSet(index, JoinPath(call.path, record.name), record)
                           /\ stack' = Tail(stack)
                      ELSE /\ stack' = Tail(stack)
                           /\ UNCHANGED index
    /\ UNCHANGED <<archive, gpc, xpc, xDesc, remaining, currentOffset, written>>

\* lines 304-305: the first traverse call has returned
BuildIndexReturn ==
    /\ UNCHANGED notGgpkVars
    /\ gpc = "traverse"
    /\ stack = <<>>
    /\ gpc' = "indexed"
    /\ UNCHANGED <<archive, stack, index, errorLog, visitLog, xpc, xDesc, remaining,
                   currentOffset, written>>

----------------------------------------------------------------------------
(* GGPKReader.extractFile                                                   *)

\* readAtOffset(offset, length): the bytes [offset, offset + length) of the
\* file; short when the file ends before (the rest of the buffer stays zero)
Piece(from, len) ==
    [from |-> from, len |-> len,
     short |-> ~MagLE(AddNumber(from, len).mag, archive.size.mag)]

\* a chunk loop that reads every chunk at the payload's start
AdvanceOffsetStuck(cur, chunkSize) == cur

\* line 260: currentOffset += BigInt(chunkSize)
AdvanceOffset(cur, chunkSize) == AddNumber(cur, chunkSize)

\* lines 240-253 for a large file, lines 266-268 for a small one
ExtractFile ==
    /\ UNCHANGED notGgpkVars
    /\ gpc = "indexed"
    /\ xpc = "none"
    /\ \E path \in DOMAIN index :
         LET d == index[path]
         IN  /\ xDesc' = d
             /\ IF d.dataLength > CHUNK_SIZE
                THEN /\ xpc' = "chunks"
                     /\ remaining' = d.dataLength
                     /\ currentOffset' = d.dataOffset
                     /\ written' = <<>>
                ELSE IF d.dataLength < 0
                THEN /\ xpc' = "failed"      \* Buffer.alloc(negative) throws
                     /\ UNCHANGED <<remaining, currentOffset, written>>
                ELSE /\ xpc' = "done"
                     /\ written' = <<Piece(d.dataOffset, d.dataLength)>>
                     /\ UNCHANGED <<remaining, currentOffset>>
    /\ UNCHANGED <<archive, gpc, stack, index, errorLog, visitLog>>

\* lines 256-262: one iteration of the chunk loop
ExtractChunk ==
    /\ UNCHANGED notGgpkVars
    /\ xpc = "chunks"
    /\ remaining > 0
    /\ LET chunkSize == Min(CHUNK_SIZE, remaining)
       IN  /\ written' = Append(written, Piece(currentOffset, chunkSize))
           /\ currentOffset' = AdvanceOffset(currentOffset, chunkSize)
           /\ remaining' = remaining - chunkSize
    /\ UNCHANGED <<archive, gpc, stack, index, errorLog, visitLog, xpc, xDesc>>

\* line 264: the loop is over, the destination is closed
ExtractClose ==
    /\ UNCHANGED notGgpkVars
    /\ xpc = "chunks"
    /\ remaining <= 0
    /\ xpc' = "done"
    /\ UNCHANGED <<archive, gpc, stack, index, errorLog, visitLog, xDesc, remaining,
                   currentOffset, written>>

NextGgpk ==
    BuildIndexStart \/ Traverse \/ BuildIndexReturn \/ ExtractFile \/ ExtractChunk
    \/ ExtractClose

\* buildIndex alone
NextGgpkCyclic == BuildIndexStart \/ Traverse \/ BuildIndexReturn

----------------------------------------------------------------------------
(* parse-worker.ts: isCached and parseFile                                  *)

MaxTasks == 3
MaxWorkers == 2
MaxRuns == 2

\* size > 100 * 1024 * 1024 is refused
MaxFileSize == 100 * 1024 * 1024

\* a ParseResult; cached is absent (undefined) unless the cache hit
Result(name, success, n, error, cached) ==
    [tableName |-> name, success |-> success, rowCount |-> n, error |-> error,
     cached |-> cached]

\* a cache test that wants the output strictly newer than the input
IsCachedStrict(f) == f.outExists /\ f.outMtime > f.inMtime

\* isCached: the output exists and is not older than the input
IsCached(f) == f.outExists /\ f.outMtime >= f.inMtime

\* parseFile(task, checkCache): the result together with whether the table
\* was handed to parser.parse and whether the output JSON was written
ParseFile(name, f, t, parserLoaded, checkCache) ==
    LET out(r, decoded, wrote) == [result |-> r, decoded |-> decoded, wrote |-> wrote]
    IN  IF ~parserLoaded
        THEN out(Result(name, FALSE, 0, "Parser not initialized", FALSE), FALSE, FALSE)
        ELSE IF ~t.schema
        THEN out(Result(name, FALSE, 0, "No schema", FALSE), FALSE, FALSE)
        ELSE IF checkCache /\ IsCached(f)
        THEN out(Result(name, TRUE, 0, "", TRUE), FALSE, FALSE)
        ELSE IF ~f.inExists
        THEN out(Result(name, FALSE, 0, "File not found", FALSE), FALSE, FALSE)
        ELSE IF f.size = 0
        THEN out(Result(name, FALSE, 0, "Empty file", FALSE), FALSE, FALSE)
        ELSE IF f.size > MaxFileSize
        THEN out(Result(name, FALSE, 0, "File too large", FALSE), FALSE, FALSE)
        ELSE IF t.io = "readThrows"
        THEN out(Result(name, FALSE, 0, "read error", FALSE), FALSE, FALSE)
        ELSE IF t.io = "writeThrows"
        THEN out(Result(name, FALSE, 0, "write error", FALSE), TRUE, FALSE)
        ELSE out(Result(name, TRUE, t.rowCount, t.parseError, FALSE), TRUE, TRUE)

----------------------------------------------------------------------------
(* parallel-parser.ts: batching and aggregation                             *)

CeilDiv(a, b) == (a + b - 1) \div b

\* a split whose later batches start one task early
MakeBatchesOverlapping(tasks, numWorkers) ==
    LET actualWorkers == Min(numWorkers, Len(tasks))
        batchSize == CeilDiv(Len(tasks), actualWorkers)
        count == CeilDiv(Len(tasks), batchSize)
    IN  [b \in 1..count |->
            SubSeq(tasks, IF b = 1 THEN 1 ELSE (b - 1) * batchSize,
                   Min(b * batchSize, Len(tasks)))]

\* lines 130-137: tasks.slice(i, i + batchSize) for i = 0, batchSize, ...
MakeBatches(tasks, numWorkers) ==
    LET actualWorkers == Min(numWorkers, Len(tasks))
        batchSize == CeilDiv(Len(tasks), actualWorkers)
        count == CeilDiv(Len(tasks), batchSize)
    IN  [b \in 1..count |->
            SubSeq(tasks, (b - 1) * batchSize + 1, Min(b * batchSize, Len(tasks)))]

ZeroStats == [success |-> 0, failed |-> 0, skipped |-> 0, cached |-> 0, totalRows |-> 0]

\* lines 206-221: one result added to the statistics
Count(st, r) ==
    IF r.cached
    THEN [st EXCEPT !.cached = @ + 1, !.success = @ + 1]
    ELSE IF r.success
    THEN [st EXCEPT !.success = @ + 1, !.totalRows = @ + r.rowCount]
    ELSE IF r.error = "No schema"
    THEN [st EXCEPT !.skipped = @ + 1]
    ELSE [st EXCEPT !.failed = @ + 1]

RECURSIVE Aggregate(_, _)
Aggregate(st, results) ==
    IF results = <<>> THEN st
    ELSE Aggregate(Count(st, Head(results)), Tail(results))

\* lines 186-189: the batches' results, flattened in batch order
AllResults == Flatten([w \in 1..Len(batches) |-> batchResults[w]])

----------------------------------------------------------------------------
(* Inputs of a parallel run                                                 *)

\* what a table file looks like when the run starts: with or without schema,
\* output JSON absent / older / as old as / newer than the input, empty or
\* oversized input, failing read or write
File(size, outExists, outMtime) ==
    [inExists |-> TRUE, inMtime |-> 5, size |-> size, outExists |-> outExists,
     outMtime |-> outMtime]
\* an input whose modification time lies ahead of the clock, no output yet
FutureFile(size) == [File(size, FALSE, 0) EXCEPT !.inMtime = 50]
Table(schema, io, n, parseError) ==
    [schema |-> schema, io |-> io, rowCount |-> n, parseError |-> parseError]

Profiles ==
    << [f |-> File(1000, FALSE, 0),       t |-> Table(TRUE, "ok", 2, "")],
       [f |-> File(1000, TRUE, 7),        t |-> Table(TRUE, "ok", 2, "")],
       [f |-> File(1000, TRUE, 7),        t |-> Table(FALSE, "ok", 0, "")],
       [f |-> File(1000, TRUE, 5),        t |-> Table(TRUE, "ok", 3, "")],
       [f |-> File(1000, TRUE, 3),        t |-> Table(TRUE, "ok", 0, "Magic bytes not found")],
       [f |-> File(1000, FALSE, 0),       t |-> Table(FALSE, "ok", 0, "")],
       [f |-> File(0, FALSE, 0),          t |-> Table(TRUE, "ok", 0, "")],
       [f |-> File(MaxFileSize + 1, FALSE, 0), t |-> Table(TRUE, "ok", 0, "")],
       [f |-> File(MaxFileSize, TRUE, 3), t |-> Table(TRUE, "ok", 4, "")],
       [f |-> File(1000, FALSE, 0),       t |-> Table(TRUE, "readThrows", 0, "")],
       [f |-> File(1000, TRUE, 3),        t |-> Table(TRUE, "writeThrows", 0, "")],
       [f |-> File(0, TRUE, 9),           t |-> Table(TRUE, "ok", 0, "")],
       [f |-> FutureFile(1000),           t |-> Table(TRUE, "ok", 2, "")] >>

\* table k of a run whose first table has profile s
ProfileOf(s, k) == Profiles[((s + k - 2) % Len(Profiles)) + 1]

\* options.useCache: true, false, or not given
UseCacheOptions == {"true", "false", "undefined"}

Options(useCache, concurrency, schemaLoads, crashes) ==
    [useCache |-> useCache, concurrency |-> concurrency, schemaLoads |-> schemaLoads,
     crashes |-> crashes]

----------------------------------------------------------------------------
(* parallel-parser.ts: runWorkerBatch / parseAllDatFilesParallel and         *)
(* parse-worker.ts: self.onmessage / parseBatch                             *)

Msg(type, count, file, results) ==
    [type |-> type, count |-> count, file |-> file, results |-> results,
     checkCache |-> FALSE]

\* line 180: options.useCache !== false
UseCache == opts.useCache # "false"

\* an answer to 'ready' that the worker's switch has no case for
UntypedMsg == [Msg("none", 0, 0, <<>>) EXCEPT !.checkCache = UseCache]

\* lines 57-61: { type: 'batch', tasks, checkCache: useCache }
BatchMsg == [Msg("batch", 0, 0, <<>>) EXCEPT !.checkCache = UseCache]

NoWorker == [st |-> "none", inbox |-> <<>>, parser |-> FALSE, checkCache |-> FALSE,
             idx |-> 0, results |-> <<>>]

Workers == 1..Len(batches)

ParAt(p, n, s, o) ==
    /\ disk = [k \in 1..n |-> ProfileOf(s, k).f]
    /\ tables = [k \in 1..n |-> ProfileOf(s, k).t]
    /\ opts = o
    /\ run = 1
    /\ now = 10
    /\ dpc = p
    /\ batches = <<>>
    /\ wk = <<>>
    /\ toDriver = <<>>
    /\ promise = <<>>
    /\ batchResults = <<>>
    /\ completed = 0
    /\ stats = ZeroStats
    /\ parseLog = <<>>
    /\ msgLog = <<>>

InitPar ==
    \/ \E n \in 0..MaxTasks, s \in 1..Len(Profiles), useCache \in UseCacheOptions :
          ParAt("start", n, s, Options(useCache, 1, TRUE, FALSE))
    \/ \E n \in 1..MaxTasks, c \in 1..MaxWorkers, s \in {1, 2}, useCache \in UseCacheOptions :
          ParAt("start", n, s, Options(useCache, c, TRUE, FALSE))
    \/ \E n \in 1..MaxTasks, c \in 1..MaxWorkers, s \in {1, 10, 13},
          fault \in {"schema", "crash"} :
          ParAt("start", n, s, Options("true", c, fault # "schema", fault = "crash"))

IdlePar == ParAt("idle", 0, 1, Options("true", 1, TRUE, FALSE))

\* the table names found in the input directory (lines 99-128)
Tasks == [k \in 1..Len(disk) |-> k]

Send(w, m) == Append(toDriver[w], m)
Logged(w, dir, m) == [msgLog EXCEPT ![w] = Append(@, [dir |-> dir, type |-> m.type,
                                                        count |-> m.count, file |-> m.file])]

\* lines 113-115 (no files), else lines 130-181: batches, one worker each,
\* every worker is sent init
DriverStart ==
    /\ UNCHANGED notParVars
    /\ dpc = "start"
    /\ IF Len(Tasks) = 0
       THEN /\ dpc' = "returned"
            /\ stats' = ZeroStats
            /\ UNCHANGED <<batches, wk, toDriver, promise, batchResults, msgLog>>
       ELSE LET bs == MakeBatches(Tasks, opts.concurrency)
                init == Msg("init", 0, 0, <<>>)
            IN  /\ batches' = bs
                /\ wk' = [w \in 1..Len(bs) |-> [NoWorker EXCEPT !.st = "spawned",
                                                               !.inbox = <<init>>]]
                /\ toDriver' = [w \in 1..Len(bs) |-> <<>>]
                /\ promise' = [w \in 1..Len(bs) |-> "pending"]
                /\ batchResults' = [w \in 1..Len(bs) |-> <<>>]
                /\ msgLog' = [w \in 1..Len(bs) |-> <<[dir |-> "toWorker", type |-> "init",
                                                     count |-> 0, file |-> 0]>>]
                /\ dpc' = "waiting"
                /\ UNCHANGED stats
    /\ UNCHANGED <<disk, tables, opts, run, now, completed, parseLog>>

\* parse-worker.ts lines 133-138 and 147-149: the worker handles init
WorkerInit(w) ==
    /\ UNCHANGED notParVars
    /\ wk[w].st = "spawned"
    /\ wk[w].inbox # <<>> /\ Head(wk[w].inbox).type = "init"
    /\ LET m == IF opts.schemaLoads THEN Msg("ready", 0, 0, <<>>)
                ELSE Msg("error", 0, 0, <<>>)
       IN  /\ wk' = [wk EXCEPT ![w].inbox = Tail(@),
                               ![w].parser = opts.schemaLoads,
                               ![w].st = "waiting"]
           /\ toDriver' = [toDriver EXCEPT ![w] = Send(w, m)]
           /\ msgLog' = Logged(w, "toDriver", m)
    /\ UNCHANGED <<disk, tables, opts, run, now, dpc, batches, promise, batchResults,
                   completed, stats, parseLog>>

\* parse-worker.ts lines 140-142 and 111: the worker takes the batch
WorkerBatch(w) ==
    /\ UNCHANGED notParVars
    /\ wk[w].st = "waiting"
    /\ wk[w].inbox # <<>> /\ Head(wk[w].inbox).type = "batch"
    /\ wk' = [wk EXCEPT ![w].inbox = Tail(@), ![w].st = "task", ![w].idx = 1,
                        ![w].checkCache = Head(wk[w].inbox).checkCache,
                        ![w].results = <<>>]
    /\ UNCHANGED <<disk, tables, opts, run, now, dpc, batches, toDriver, promise, batchResults,
                   completed, stats, parseLog, msgLog>>

\* a progress message that says "starting" also when the task is done
ProgressNeverCounts(name) == Msg("progress", 0, name, <<>>)

\* parse-worker.ts line 115: { type: 'progress', count: 0, currentFile }
StartingProgress(name) == Msg("progress", 0, name, <<>>)

\* parse-worker.ts line 121: { type: 'progress', count: 1, currentFile, done }
CompletedProgress(name) == Msg("progress", 1, name, <<>>)

\* parse-worker.ts lines 113-115: the "starting" progress of the next task
WorkerTaskStart(w) ==
    /\ UNCHANGED notParVars
    /\ wk[w].st = "task"
    /\ wk[w].idx <= Len(batches[w])
    /\ LET m == StartingProgress(batches[w][wk[w].idx])
       IN  /\ toDriver' = [toDriver EXCEPT ![w] = Send(w, m)]
           /\ msgLog' = Logged(w, "toDriver", m)
    /\ wk' = [wk EXCEPT ![w].st = "parsing"]
    /\ UNCHANGED <<disk, tables, opts, run, now, dpc, batches, promise, batchResults,
                   completed, stats, parseLog>>

\* an output file that keeps the time stamp 0 whenever it is written
StampedEpoch(f) == [f EXCEPT !.outExists = TRUE, !.outMtime = 0]

\* Bun.write(task.outputPath, json): the output exists, stamped with the clock
Stamped(f) == [f EXCEPT !.outExists = TRUE, !.outMtime = now]

\* parse-worker.ts lines 117-121: parseFile, then the "completed" progress
WorkerParseFile(w) ==
    /\ UNCHANGED notParVars
    /\ wk[w].st = "parsing"
    /\ LET name == batches[w][wk[w].idx]
           p == ParseFile(name, disk[name], tables[name], wk[w].parser, wk[w].checkCache)
           m == CompletedProgress(name)
       IN  /\ wk' = [wk EXCEPT ![w].results = Append(@, p.result), ![w].idx = @ + 1,
                               ![w].st = "task"]
           /\ parseLog' = Append(parseLog, [run |-> run, name |-> name, worker |-> w,
                                            file |-> disk[name],
                                            checkCache |-> wk[w].checkCache,
                                            result |-> p.result, decoded |-> p.decoded,
                                            wrote |-> p.wrote])
           /\ disk' = IF p.wrote THEN [disk EXCEPT ![name] = Stamped(@)] ELSE disk
           /\ toDriver' = [toDriver EXCEPT ![w] = Send(w, m)]
           /\ msgLog' = Logged(w, "toDriver", m)
    /\ UNCHANGED <<tables, opts, run, now, dpc, batches, promise, batchResults, completed, stats>>

\* parse-worker.ts lines 124 and 143: the batch is done, its results are posted
WorkerBatchResult(w) ==
    /\ UNCHANGED notParVars
    /\ wk[w].st = "task"
    /\ wk[w].idx > Len(batches[w])
    /\ LET m == Msg("batch-result", 0, 0, wk[w].results)
       IN  /\ toDriver' = [toDriver EXCEPT ![w] = Send(w, m)]
           /\ msgLog' = Logged(w, "toDriver", m)
    /\ wk' = [wk EXCEPT ![w].st = "finished"]
    /\ UNCHANGED <<disk, tables, opts, run, now, dpc, batches, promise, batchResults,
                   completed, stats, parseLog>>

\* the worker thread dies of an uncaught error: the driver's onerror fires
WorkerCrash(w) ==
    /\ UNCHANGED notParVars
    /\ opts.crashes
    /\ w = 1
    /\ wk[w].st \in {"task", "parsing"}
    /\ LET m == Msg("crash", 0, 0, <<>>)
       IN  /\ toDriver' = [toDriver EXCEPT ![w] = Send(w, m)]
           /\ msgLog' = Logged(w, "toDriver", m)
    /\ wk' = [wk EXCEPT ![w].st = "crashed"]
    /\ UNCHANGED <<disk, tables, opts, run, now, dpc, batches, promise, batchResults,
                   completed, stats, parseLog>>

\* a driver that takes a worker's error for the end of its batch
RejectedAsResolved(p) == IF p = "pending" THEN "resolved" ELSE p

\* reject(...): a promise that is still pending is rejected
Rejected(p) == IF p = "pending" THEN "rejected" ELSE p

\* worker.terminate()
Terminated(w) == [wk EXCEPT ![w].st = "terminated", ![w].inbox = <<>>]

\* parallel-parser.ts lines 51-77: the driver handles one event of worker w
DriverOnMessage(w) ==
    /\ UNCHANGED notParVars
    /\ dpc \in {"waiting", "rejected"}
    /\ toDriver[w] # <<>>
    /\ LET m == Head(toDriver[w])
       IN  /\ toDriver' = [toDriver EXCEPT ![w] = Tail(@)]
           /\ CASE m.type = "ready" ->
                    /\ wk' = [wk EXCEPT ![w].inbox = Append(@, BatchMsg)]
                    /\ msgLog' = Logged(w, "toWorker", BatchMsg)
                    /\ UNCHANGED <<promise, batchResults, completed>>
                [] m.type = "progress" ->
                    /\ completed' = IF m.count > 0 THEN completed + m.count ELSE completed
                    /\ UNCHANGED <<wk, promise, batchResults, msgLog>>
                [] m.type = "batch-result" ->
                    /\ wk' = Terminated(w)
                    /\ promise' = [promise EXCEPT ![w] = IF @ = "pending" THEN "resolved" ELSE @]
                    /\ batchResults' = [batchResults EXCEPT ![w] = m.results]
                    /\ UNCHANGED <<completed, msgLog>>
                [] OTHER ->      \* "error" (line 68) or the onerror event (line 74)
                    /\ wk' = Terminated(w)
                    /\ promise' = [promise EXCEPT ![w] = Rejected(@)]
                    /\ UNCHANGED <<batchResults, completed, msgLog>>
    /\ UNCHANGED <<disk, tables, opts, run, now, dpc, batches, stats, parseLog>>

\* lines 183-223: Promise.all resolved, the results are aggregated and returned
DriverReturn ==
    /\ UNCHANGED notParVars
    /\ dpc = "waiting"
    /\ \A w \in Workers : promise[w] = "resolved"
    /\ stats' = Aggregate(ZeroStats, AllResults)
    /\ dpc' = "returned"
    /\ UNCHANGED <<disk, tables, opts, run, now, batches, wk, toDriver, promise, batchResults,
                   completed, parseLog, msgLog>>

\* lines 183 and 224-227: Promise.all rejected, the error is rethrown
DriverReject ==
    /\ UNCHANGED notParVars
    /\ dpc = "waiting"
    /\ \E w \in Workers : promise[w] = "rejected"
    /\ dpc' = "rejected"
    /\ UNCHANGED <<disk, tables, opts, run, now, batches, wk, toDriver, promise, batchResults,
                   completed, stats, parseLog, msgLog>>

\* the caller runs the decoder again on the same directories: the files are
\* as the previous run left them, the clock has moved on
DriverRunAgain ==
    /\ UNCHANGED notParVars
    /\ dpc = "returned"
    /\ run < MaxRuns
    /\ run' = run + 1
    /\ now' = now + 1
    /\ dpc' = "start"
    /\ batches' = <<>>
    /\ wk' = <<>>
    /\ toDriver' = <<>>
    /\ promise' = <<>>
    /\ batchResults' = <<>>
    /\ completed' = 0
    /\ stats' = ZeroStats
    /\ msgLog' = <<>>
    /\ UNCHANGED <<disk, tables, opts, parseLog>>

NextPar ==
    \/ DriverStart
    \/ DriverRunAgain
    \/ DriverReturn
    \/ DriverReject
    \/ \E w \in Workers : WorkerInit(w)
    \/ \E w \in Workers : WorkerBatch(w)
    \/ \E w \in Workers : WorkerTaskStart(w)
    \/ \E w \in Workers : WorkerParseFile(w)
    \/ \E w \in Workers : WorkerBatchResult(w)
    \/ \E w \in Workers : WorkerCrash(w)
    \/ \E w \in Workers : DriverOnMessage(w)

----------------------------------------------------------------------------
(* parallel-parser.ts lines 130-137: the batching loop on its own           *)

MaxBatchTasks == 8
MaxBatchWorkers == 7

InitBatch ==
    \E n \in 1..MaxBatchTasks, c \in 1..MaxBatchWorkers :
       ParAt("split", n, 1, Options("true", c, TRUE, FALSE))

\* tasks already pushed: the loop variable i
Pushed == Len(Flatten(batches))

\* lines 135-137: one iteration, batches.push(tasks.slice(i, i + batchSize))
BatchPush ==
    /\ UNCHANGED notParVars
    /\ dpc = "split"
    /\ Pushed < Len(Tasks)
    /\ LET actualWorkers == Min(opts.concurrency, Len(Tasks))
           batchSize == CeilDiv(Len(Tasks), actualWorkers)
       IN  batches' = Append(batches, SubSeq(Tasks, Pushed + 1,
                                             Min(Pushed + batchSize, Len(Tasks))))
    /\ UNCHANGED <<disk, tables, opts, run, now, dpc, wk, toDriver, promise, batchResults,
                   completed, stats, parseLog, msgLog>>

\* line 135: i < tasks.length is false, the loop ends
BatchDone ==
    /\ UNCHANGED notParVars
    /\ dpc = "split"
    /\ Pushed >= Len(Tasks)
    /\ dpc' = "batched"
    /\ UNCHANGED <<disk, tables, opts, run, now, batches, wk, toDriver, promise,
                   batchResults, completed, stats, parseLog, msgLog>>

NextBatch == BatchPush \/ BatchDone

----------------------------------------------------------------------------
(* Text: strings are sequences of characters                                *)

UpperChars == <<"A", "B", "C", "D", "E", "F", "G", "H", "I", "J", "K", "L", "M", "N", "O",
    "P", "Q", "R", "S", "T", "U", "V", "W", "X", "Y", "Z">>
LowerChars == <<"a", "b", "c", "d", "e", "f", "g", "h", "i", "j", "k", "l", "m", "n", "o",
    "p", "q", "r", "s", "t", "u", "v", "w", "x", "y", "z">>

ToLowerChar(c) ==
    IF \E i \in DOMAIN UpperChars : UpperChars[i] = c
    THEN LowerChars[CHOOSE i \in DOMAIN UpperChars : UpperChars[i] = c]
    ELSE c

\* String.prototype.toLowerCase
ToLowerCase(s) == [i \in DOMAIN s |-> ToLowerChar(s[i])]

\* lit occurs in s at position i
MatchesAt(s, i, lit) ==
    /\ i >= 1
    /\ i + Len(lit) - 1 <= Len(s)
    /\ \A k \in DOMAIN lit : s[i + k - 1] = lit[k]

\* String.prototype.includes
Includes(s, lit) == \E i \in 1..(Len(s) + 1) : MatchesAt(s, i, lit)

\* String.prototype.endsWith
EndsWith(s, lit) == MatchesAt(s, Len(s) - Len(lit) + 1, lit)

\* String.prototype.split('\n')
RECURSIVE SplitLines(_)
SplitLines(s) ==
    IF \A i \in DOMAIN s : s[i] # "\n" THEN <<s>>
    ELSE LET i == CHOOSE j \in DOMAIN s : s[j] = "\n" /\ \A k \in 1..(j - 1) : s[k] # "\n"
         IN  <<SubSeq(s, 1, i - 1)>> \o SplitLines(SubSeq(s, i + 1, Len(s)))

WhiteSpace == {" ", "\t", "\n", "\r"}

\* String.prototype.trim
RECURSIVE Trim(_)
Trim(s) ==
    IF s = <<>> THEN s
    ELSE IF s[1] \in WhiteSpace THEN Trim(Tail(s))
    ELSE IF s[Len(s)] \in WhiteSpace THEN Trim(SubSeq(s, 1, Len(s) - 1))
    ELSE s

DigitChars == <<"0", "1", "2", "3", "4", "5", "6", "7", "8", "9">>

IsDigit(c) == \E i \in DOMAIN DigitChars : DigitChars[i] = c

DigitValue(c) == (CHOOSE i \in DOMAIN DigitChars : DigitChars[i] = c) - 1

\* the position after the longest run of digits that starts at i (\d+, greedy)
RECURSIVE DigitsEnd(_, _)
DigitsEnd(s, i) == IF i <= Len(s) /\ IsDigit(s[i]) THEN DigitsEnd(s, i + 1) ELSE i

\* parseInt of the digits s[i .. j-1]
RECURSIVE ParseInt(_, _, _)
ParseInt(s, i, j) ==
    IF j <= i THEN 0 ELSE ParseInt(s, i, j - 1) * 10 + DigitValue(s[j - 1])

----------------------------------------------------------------------------
(* bundle-extractor.ts: extractBundledFiles, the utility's verdict          *)

DoneSentinel == <<"D", "o", "n", "e", ",">>

ExtractionResult(extracted, total, missed) ==
    [extracted |-> extracted, total |-> total, missed |-> missed]

NoMatch == [ok |-> FALSE, x |-> 0, y |-> 0, z |-> 0]

\* /Done, (\d+)\/(\d+) extracted, (\d+) missed/ tried at position i
DoneMatchAt(s, i) ==
    LET a  == i + Len(<<"D", "o", "n", "e", ",", " ">>)
        a2 == DigitsEnd(s, a)
        b  == a2 + 1
        b2 == DigitsEnd(s, b)
        c  == b2 + Len(<<" ", "e", "x", "t", "r", "a", "c", "t", "e", "d", ",", " ">>)
        c2 == DigitsEnd(s, c)
    IN  IF /\ MatchesAt(s, i, <<"D", "o", "n", "e", ",", " ">>)
           /\ a2 > a
           /\ MatchesAt(s, a2, <<"/">>)
           /\ b2 > b
           /\ MatchesAt(s, b2, <<" ", "e", "x", "t", "r", "a", "c", "t", "e", "d", ",",
               " ">>)
           /\ c2 > c
           /\ MatchesAt(s, c2, <<" ", "m", "i", "s", "s", "e", "d">>)
        THEN [ok |-> TRUE, x |-> ParseInt(s, a, a2), y |-> ParseInt(s, b, b2),
              z |-> ParseInt(s, c, c2)]
        ELSE NoMatch

\* output.match(...): the leftmost match
DoneMatch(s) ==
    IF \E i \in DOMAIN s : DoneMatchAt(s, i).ok
    THEN DoneMatchAt(s, CHOOSE i \in DOMAIN s :
                           DoneMatchAt(s, i).ok /\ \A k \in 1..(i - 1) : ~DoneMatchAt(s, k).ok)
    ELSE NoMatch

\* a verdict that takes every non-zero exit code for a failure
UtilityFailedOnExitCode(exitCode, output) == exitCode # 0

\* line 231: exitCode !== 0 && !output.includes('Done,')
UtilityFailed(exitCode, output) == exitCode # 0 /\ ~Includes(output, DoneSentinel)

\* lines 229-258: the combined output is judged
ExtractBundledOutcome(exitCode, stdout, outputBuffer, patternCount) ==
    LET output == stdout \o <<"\n">> \o outputBuffer
        match == DoneMatch(output)
    IN  IF UtilityFailed(exitCode, output)
        THEN [thrown |-> TRUE, result |-> ExtractionResult(0, 0, 0)]
        ELSE IF match.ok
        THEN [thrown |-> FALSE, result |-> ExtractionResult(match.x, match.y, match.z)]
        ELSE [thrown |-> FALSE, result |-> ExtractionResult(0, patternCount, patternCount)]

\* lines 199-201: the lines of a chunk that count as progress
ProgressLines(chunk) ==
    Cardinality({i \in DOMAIN SplitLines(chunk) :
                    \/ Includes(SplitLines(chunk)[i], <<"E", "x", "t", "r", "a", "c", "t",
                        "i", "n", "g", ":">>)
                    \/ Includes(SplitLines(chunk)[i], <<"e", "x", "t", "r", "a", "c", "t",
                        "e", "d">>)})

----------------------------------------------------------------------------
(* bundle-extractor.ts: extractByPattern, the language filter               *)

\* NON_ENGLISH_PATTERNS, as the literal texts the joined regex looks for
NON_ENGLISH_PATTERNS ==
    << <<"/", "f", "r", "e", "n", "c", "h", "/">>, <<"/", "g", "e", "r", "m", "a", "n",
        "/">>, <<"/", "j", "a", "p", "a", "n", "e", "s", "e", "/">>, <<"/", "k", "o", "r",
        "e", "a", "n", "/">>,
       <<"/", "p", "o", "r", "t", "u", "g", "u", "e", "s", "e", "/">>, <<"/", "r", "u",
           "s", "s", "i", "a", "n", "/">>, <<"/", "s", "p", "a", "n", "i", "s", "h", "/">>,
           <<"/", "t", "h", "a", "i", "/">>,
       <<"/", "t", "r", "a", "d", "i", "t", "i", "o", "n", "a", "l", " ", "c", "h", "i",
           "n", "e", "s", "e", "/">>, <<"/", "s", "i", "m", "p", "l", "i", "f", "i", "e",
           "d", " ", "c", "h", "i", "n", "e", "s", "e", "/">>,
       <<".", "f", "r", "e", "n", "c", "h", ".">>, <<".", "g", "e", "r", "m", "a", "n",
           ".">>, <<".", "j", "a", "p", "a", "n", "e", "s", "e", ".">>, <<".", "k", "o",
           "r", "e", "a", "n", ".">>,
       <<".", "p", "o", "r", "t", "u", "g", "u", "e", "s", "e", ".">>, <<".", "r", "u",
           "s", "s", "i", "a", "n", ".">>, <<".", "s", "p", "a", "n", "i", "s", "h", ".">>,
           <<".", "t", "h", "a", "i", ".">>,
       <<".", "t", "r", "a", "d", "i", "t", "i", "o", "n", "a", "l", " ", "c", "h", "i",
           "n", "e", "s", "e", ".">>, <<".", "s", "i", "m", "p", "l", "i", "f", "i", "e",
           "d", " ", "c", "h", "i", "n", "e", "s", "e", ".">> >>

\* langRegex.test(f): new RegExp(NON_ENGLISH_PATTERNS.join('|'), 'i')
LangRegexTest(f) ==
    \E i \in DOMAIN NON_ENGLISH_PATTERNS : Includes(ToLowerCase(f), NON_ENGLISH_PATTERNS[i])

\* the request's regex: its source text and what it accepts, an optional
\* prefix (^...) followed by anything and an optional choice of endings (...$)
Regex(src, prefix, suffixes) == [src |-> src, prefix |-> prefix, suffixes |-> suffixes]

\* patternRegex.test(f): new RegExp(pattern, 'i')
PatternRegexTest(re, f) ==
    /\ MatchesAt(ToLowerCase(f), 1, re.prefix)
    /\ re.suffixes = {} \/ \E suf \in re.suffixes : EndsWith(ToLowerCase(f), suf)

\* a filter that only looks at the request's regex
KeepMatching(re, f) == PatternRegexTest(re, f)

\* lines 307-309: patternRegex.test(f) && !langRegex.test(f)
KeepFile(re, f) == PatternRegexTest(re, f) /\ ~LangRegexTest(f)

\* listBundledFiles lines 124-127: the utility's stdout, one path per line
RECURSIVE NonEmpty(_)
NonEmpty(lines) ==
    IF lines = <<>> THEN <<>>
    ELSE IF Len(Head(lines)) > 0 THEN <<Head(lines)>> \o NonEmpty(Tail(lines))
    ELSE NonEmpty(Tail(lines))

ListedFiles(stdout) == NonEmpty([i \in DOMAIN SplitLines(stdout) |-> Trim(SplitLines(stdout)[i])])

RECURSIVE FilterFiles(_, _)
FilterFiles(re, files) ==
    IF files = <<>> THEN <<>>
    ELSE IF KeepFile(re, Head(files)) THEN <<Head(files)>> \o FilterFiles(re, Tail(files))
    ELSE FilterFiles(re, Tail(files))

----------------------------------------------------------------------------
(* Inputs of the bundle extractor                                           *)

ExitCodes == {0, 1, 3}

Stdouts ==
    { <<>>, <<"D", "o", "n", "e", ",", " ", "4", "/", "4", " ", "e", "x", "t", "r", "a",
        "c", "t", "e", "d", ",", " ", "0", " ", "m", "i", "s", "s", "e", "d", ".", "\n">>,
        <<"D", "o", "n", "e">>, <<"L", "o", "a", "d", "i", "n", "g", " ", "i", "n", "d",
        "e", "x", "\n">> }

\* what the utility writes to stderr, in the chunks the reader delivers
Stderrs ==
    { <<>>,
      << <<"E", "x", "t", "r", "a", "c", "t", "i", "n", "g", ":", " ", "a", "\n">>, <<"D",
          "o", "n", "e", ",", " ", "1", "/", "1", " ", "e", "x", "t", "r", "a", "c", "t",
          "e", "d", ",", " ", "0", " ", "m", "i", "s", "s", "e", "d", ".", "\n">> >>,
      << <<"E", "x", "t", "r", "a", "c", "t", "i", "n", "g", ":", " ", "a", "\n", "E", "x",
          "t", "r", "a", "c", "t", "i", "n", "g", ":", " ", "b", "\n">>, <<"D", "o", "n",
          "e", ",", " ", "1", "2", "/", "1", "5", " ", "e", "x", "t", "r", "a">>, <<"c",
          "t", "e", "d", ",", " ", "3", " ", "m", "i", "s", "s", "e", "d", ".", "\n">> >>,
      << <<"e", "r", "r", "o", "r", ":", " ", "b", "o", "o", "m", "\n">> >>,
      << <<"D", "o", "n", "e", ",", " ", "x", "/", "5", " ", "e", "x", "t", "r", "a", "c",
          "t", "e", "d", "\n">> >>,
      << <<"E", "x", "t", "r", "a", "c", "t", "i", "n", "g", ":", " ", "D", "o", "n", "e",
          ",", " ", "i", "t", ".", "t", "x", "t", "\n">>, <<"D", "o", "n", "e", ",", " ",
          "2", "/", "3", " ", "e", "x", "t", "r", "a", "c", "t", "e", "d", ",", " ", "1",
          " ", "m", "i", "s", "s", "e", "d", ".", "\n">> >>,
      << <<"D", "o", "n", "e", ",", " ", "0", "7", "/", "1", "0", " ", "e", "x", "t", "r",
          "a", "c", "t", "e", "d", ",", " ", "3", " ", "m", "i", "s", "s", "e", "d">> >>,
      << <<"d", "o", "n", "e", ",", " ", "1", "/", "1", " ", "e", "x", "t", "r", "a", "c",
          "t", "e", "d", ",", " ", "0", " ", "m", "i", "s", "s", "e", "d", "\n">> >>,
      << <<",", " ", "1", "/", "1", " ", "e", "x", "t", "r", "a", "c", "t", "e", "d", ",",
          " ", "0", " ", "m", "i", "s", "s", "e", "d", "\n">> >> }

PathLists == { << <<"a", "r", "t", "/", "a", ".", "d", "d", "s">> >>, << <<"a", "r", "t",
    "/", "a", ".", "d", "d", "s">>, <<"d", "a", "t", "a", "/", "x", ".", "d", "a", "t",
    "c", "6", "4">> >> }

Regexes ==
    { Regex(<<".", "*">>, <<>>, {}),
      Regex(<<".", "*", "\\", ".", "d", "d", "s", "$">>, <<>>, {<<".", "d", "d", "s">>}),
      Regex(<<"^", "a", "r", "t", "/", ".", "*">>, <<"a", "r", "t", "/">>, {}),
      Regex(<<".", "*", "\\", ".", "d", "a", "t", "c", "?", "6", "4", "$">>, <<>>, {<<".",
          "d", "a", "t", "6", "4">>, <<".", "d", "a", "t", "c", "6", "4">>}) }

\* what list-files prints
Listings ==
    { <<"a", "r", "t", "/", "a", ".", "d", "d", "s", "\n", "a", "r", "t", "/", "F", "r",
        "e", "n", "c", "h", "/", "a", ".", "d", "d", "s", "\n", "d", "a", "t", "a", "/",
        "x", ".", "d", "a", "t", "c", "6", "4", "\n", "d", "a", "t", "a", "/", "x", ".",
        "f", "r", "e", "n", "c", "h", ".", "d", "a", "t", "c", "6", "4", "\n">>,
      <<"a", "r", "t", "/", "b", ".", "D", "D", "S", "\r", "\n", "a", "r", "t", "/", "G",
          "E", "R", "M", "A", "N", "/", "b", ".", "d", "d", "s", "\r", "\n", "f", "r", "e",
          "n", "c", "h", "/", "c", ".", "d", "d", "s", "\r", "\n", "\r", "\n">>,
      <<"a", "u", "d", "i", "o", "/", "T", "h", "a", "i", "/", "v", ".", "o", "g", "g",
          "\n", "d", "a", "t", "a", "/", "y", ".", "K", "o", "r", "e", "a", "n", ".", "d",
          "a", "t", "6", "4", "\n">>,
      <<>> }

\* how the extraction run of the utility ends, for calls by pattern
Runs ==
    { [exitCode |-> 0, stdout |-> <<>>, stderr |-> << <<"D", "o", "n", "e", ",", " ", "2",
        "/", "2", " ", "e", "x", "t", "r", "a", "c", "t", "e", "d", ",", " ", "0", " ",
        "m", "i", "s", "s", "e", "d", ".", "\n">> >>],
      [exitCode |-> 0, stdout |-> <<>>, stderr |-> << <<"D", "o", "n", "e", ",", " ", "0",
          "/", "1", " ", "e", "x", "t", "r", "a", "c", "t", "e", "d", ",", " ", "1", " ",
          "m", "i", "s", "s", "e", "d", ".", "\n">> >>],
      [exitCode |-> 1, stdout |-> <<>>, stderr |-> << <<"e", "r", "r", "o", "r", ":", " ",
          "b", "o", "o", "m", "\n">> >>] }

----------------------------------------------------------------------------
(* bundle-extractor.ts: extractBundledFiles and extractByPattern            *)

NoRegex == Regex(<<>>, <<>>, {})

ByPaths(patterns) ==
    [entry |-> "paths", pattern |-> NoRegex, excludeLanguages |-> FALSE,
     convertDDS |-> FALSE, patterns |-> patterns]

ByPattern(pattern, excludeLanguages, convertDDS) ==
    [entry |-> "pattern", pattern |-> pattern, excludeLanguages |-> excludeLanguages,
     convertDDS |-> convertDDS, patterns |-> <<>>]

NoListing == [exitCode |-> 0, stdout |-> <<>>]

\* a call: what was asked (call), what list-files answers (list) and what
\* extract-files does (util)
BxRecord(at, call, list, util) ==
    [ pc |-> at,
      entry |-> call.entry,                \* "paths": extractBundledFiles called directly
      pattern |-> call.pattern,
      excludeLanguages |-> call.excludeLanguages,
      convertDDS |-> call.convertDDS,
      listExit |-> list.exitCode,          \* list-files: exit code
      listing |-> list.stdout,             \* list-files: stdout
      useRegex |-> FALSE,
      patterns |-> call.patterns,
      useStdin |-> FALSE,
      exitCode |-> util.exitCode,          \* extract-files: exit code, stdout, stderr
      stdout |-> util.stdout,
      stderr |-> util.stderr,              \* ... the chunks not yet read
      emitted |-> Flatten(util.stderr),    \* ... all of stderr
      spawned |-> FALSE,
      outputBuffer |-> <<>>,
      extracted |-> 0,
      result |-> ExtractionResult(0, 0, 0),
      converted |-> FALSE ]

InitBx ==
    \/ \E patterns \in PathLists, exitCode \in ExitCodes, stdout \in Stdouts,
          stderr \in Stderrs :
         \* the utility prints its summary line once, on one of its streams
         /\ ~(/\ Includes(stdout, <<" ", "m", "i", "s", "s", "e", "d">>)
              /\ Includes(Flatten(stderr), <<" ", "m", "i", "s", "s", "e", "d">>))
         /\ bx = BxRecord("spawn", ByPaths(patterns), NoListing,
                       [exitCode |-> exitCode, stdout |-> stdout, stderr |-> stderr])
    \/ \E pattern \in Regexes, excludeLanguages \in BOOLEAN, convertDDS \in BOOLEAN,
          listExit \in {0, 1}, listing \in Listings, r \in Runs :
         bx = BxRecord("pattern", ByPattern(pattern, excludeLanguages, convertDDS),
                       [exitCode |-> listExit, stdout |-> listing], r)

IdleBx ==
    bx = BxRecord("idle", ByPaths(<<>>), NoListing,
                  [exitCode |-> 0, stdout |-> <<>>, stderr |-> <<>>])

\* extractByPattern lines 286-298 and 326-332: with excludeLanguages the
\* files are listed first, else the regex goes to the utility as it is
ExtractByPatternCall ==
    /\ UNCHANGED notBxVars
    /\ bx.pc = "pattern"
    /\ IF bx.excludeLanguages
       THEN bx' = [bx EXCEPT !.pc = "listing"]
       ELSE bx' = [bx EXCEPT !.pc = "spawn", !.useRegex = TRUE,
                             !.patterns = <<bx.pattern.src>>]

\* listBundledFiles (lines 73-137), then lines 300-324: filter, and hand
\* the paths that are left to extractBundledFiles
ListAndFilter ==
    /\ UNCHANGED notBxVars
    /\ bx.pc = "listing"
    /\ IF bx.listExit # 0      \* and stderr without 'File count': line 96
       THEN bx' = [bx EXCEPT !.pc = "thrown"]
       ELSE LET filteredFiles == FilterFiles(bx.pattern, ListedFiles(bx.listing))
            IN  IF Len(filteredFiles) = 0
                THEN bx' = [bx EXCEPT !.pc = "returned",
                                      !.result = ExtractionResult(0, 0, 0)]
                ELSE bx' = [bx EXCEPT !.pc = "spawn", !.useRegex = FALSE,
                                      !.patterns = filteredFiles]

\* extractBundledFiles lines 144-178: the arguments, and the utility is started
SpawnExtract ==
    /\ UNCHANGED notBxVars
    /\ bx.pc = "spawn"
    /\ bx' = [bx EXCEPT !.pc = "reading",
                        !.useStdin = ~bx.useRegex /\ Len(bx.patterns) > 50,
                        !.spawned = TRUE]

\* lines 190-221: one chunk of stderr is read
ReadStderr ==
    /\ UNCHANGED notBxVars
    /\ bx.pc = "reading"
    /\ bx.stderr # <<>>
    /\ bx' = [bx EXCEPT !.stderr = Tail(@),
                        !.outputBuffer = @ \o Head(bx.stderr),
                        !.extracted = @ + ProgressLines(Head(bx.stderr))]

\* lines 192 and 225-258: stderr is at its end, the utility has exited
UtilityExited ==
    /\ UNCHANGED notBxVars
    /\ bx.pc = "reading"
    /\ bx.stderr = <<>>
    /\ LET o == ExtractBundledOutcome(bx.exitCode, bx.stdout, bx.outputBuffer,
                                      Len(bx.patterns))
       IN  IF o.thrown
           THEN bx' = [bx EXCEPT !.pc = "thrown"]
           ELSE bx' = [bx EXCEPT !.result = o.result,
                                 !.pc = IF bx.entry = "pattern" THEN "post" ELSE "returned"]

\* extractByPattern lines 334-347: the optional DDS conversion, and return
PostProcess ==
    /\ UNCHANGED notBxVars
    /\ bx.pc = "post"
    /\ bx' = [bx EXCEPT !.pc = "returned",
                        !.converted = bx.convertDDS /\ bx.result.extracted > 0]

NextBx ==
    ExtractByPatternCall \/ ListAndFilter \/ SpawnExtract \/ ReadStderr \/ UtilityExited
    \/ PostProcess

----------------------------------------------------------------------------
(* extraction-pipeline.ts, image-converter.ts: paths and the output directory *)

\* the position of the last ch in s, 0 when there is none
LastIndexOf(s, ch) ==
    IF \E i \in DOMAIN s : s[i] = ch
    THEN CHOOSE i \in DOMAIN s : s[i] = ch /\ \A k \in (i + 1)..Len(s) : s[k] # ch
    ELSE 0

\* path.basename, path.dirname, path.extname
Basename(p) == SubSeq(p, LastIndexOf(p, "/") + 1, Len(p))

Dirname(p) == SubSeq(p, 1, LastIndexOf(p, "/") - 1)

ExtName(p) ==
    LET b == Basename(p)
        k == LastIndexOf(b, ".")
    IN  IF k <= 1 THEN <<>> ELSE SubSeq(b, k, Len(b))

\* s.replace(/...$/i, replacement), for the endings the regex matches
ReplaceSuffix(s, suffixes, replacement) ==
    IF \E suf \in suffixes : EndsWith(ToLowerCase(s), suf)
    THEN LET suf == CHOOSE x \in suffixes : EndsWith(ToLowerCase(s), x)
         IN  SubSeq(s, 1, Len(s) - Len(suf)) \o replacement
    ELSE s

\* /\.dds$/i
DdsSuffixes == {<<".", "d", "d", "s">>}

\* /\.datc?64$/i
DatSuffixes == {<<".", "d", "a", "t", "c", "6", "4">>, <<".", "d", "a", "t", "6", "4">>}

WebpPath(ddsPath) == ReplaceSuffix(ddsPath, DdsSuffixes, <<".", "w", "e", "b", "p">>)

JsonPath(file) == ReplaceSuffix(file, DatSuffixes, <<".", "j", "s", "o", "n">>)

TableName(file) == ToLowerCase(ReplaceSuffix(Basename(file), DatSuffixes, <<>>))

IsDds(filePath) == ToLowerCase(ExtName(filePath)) = <<".", "d", "d", "s">>

IsDat(filePath) == ToLowerCase(ExtName(filePath)) \in {<<".", "d", "a", "t", "c", "6",
    "4">>, <<".", "d", "a", "t">>}

\* the order in which readdir walks the output directory
ScanOrder ==
    << <<"a", "r", "t", "/", "B", ".", "D", "D", "S">>, <<"a", "r", "t", "/", "B", ".",
        "w", "e", "b", "p">>, <<"a", "r", "t", "/", "a", ".", "d", "d", "s">>, <<"a", "r",
        "t", "/", "a", ".", "w", "e", "b", "p">>, <<"a", "r", "t", "/", "n", ".", "t", "x",
        "t">>,
       <<"d", "a", "t", "a", "/", "x", ".", "d", "a", "t", "c", "6", "4">>, <<"d", "a",
           "t", "a", "/", "x", ".", "j", "s", "o", "n">>, <<"d", "a", "t", "a", "/", "y",
           ".", "d", "a", "t">>, <<"d", "a", "t", "a", "/", "y", ".", "j", "s", "o", "n">>,
           <<"d", "a", "t", "a", "/", "z", ".", "d", "a", "t", "c", "6", "4">> >>

\* scanDirectory: the files of a directory tree, in order
ScanDirectory(fs) ==
    LET Present(f) == f \in fs
    IN  SelectSeq(ScanOrder, Present)

\* output directories: freshly extracted, extracted again over an earlier
\* run's results, legacy .dat tables, mixed, empty, converted results only,
\* originals left beside their converted files
Directories ==
    { {<<"a", "r", "t", "/", "a", ".", "d", "d", "s">>, <<"a", "r", "t", "/", "B", ".",
        "D", "D", "S">>, <<"a", "r", "t", "/", "n", ".", "t", "x", "t">>, <<"d", "a", "t",
        "a", "/", "x", ".", "d", "a", "t", "c", "6", "4">>, <<"d", "a", "t", "a", "/", "z",
        ".", "d", "a", "t", "c", "6", "4">>},
      {<<"a", "r", "t", "/", "a", ".", "d", "d", "s">>, <<"a", "r", "t", "/", "a", ".",
          "w", "e", "b", "p">>, <<"d", "a", "t", "a", "/", "x", ".", "d", "a", "t", "c",
          "6", "4">>, <<"d", "a", "t", "a", "/", "x", ".", "j", "s", "o", "n">>},
      {<<"a", "r", "t", "/", "n", ".", "t", "x", "t">>, <<"d", "a", "t", "a", "/", "y",
          ".", "d", "a", "t">>},
      {<<"a", "r", "t", "/", "a", ".", "d", "d", "s">>, <<"a", "r", "t", "/", "B", ".",
          "D", "D", "S">>, <<"a", "r", "t", "/", "B", ".", "w", "e", "b", "p">>, <<"d",
          "a", "t", "a", "/", "x", ".", "d", "a", "t", "c", "6", "4">>, <<"d", "a", "t",
          "a", "/", "y", ".", "d", "a", "t">>, <<"d", "a", "t", "a", "/", "y", ".", "j",
          "s", "o", "n">>},
      {},
      {<<"a", "r", "t", "/", "a", ".", "w", "e", "b", "p">>, <<"d", "a", "t", "a", "/",
          "x", ".", "j", "s", "o", "n">>},
      {<<"a", "r", "t", "/", "B", ".", "D", "D", "S">>, <<"a", "r", "t", "/", "B", ".",
          "w", "e", "b", "p">>, <<"a", "r", "t", "/", "a", ".", "d", "d", "s">>, <<"a",
          "r", "t", "/", "a", ".", "w", "e", "b", "p">>, <<"d", "a", "t", "a", "/", "x",
          ".", "d", "a", "t", "c", "6", "4">>, <<"d", "a", "t", "a", "/", "x", ".", "j",
          "s", "o", "n">>, <<"d", "a", "t", "a", "/", "y", ".", "d", "a", "t">>} }

\* the tables the schema knows
SchemaTables == {<<"x">>, <<"z">>}

\* what goes wrong for which file: texconv reports an error, texconv leaves
\* no PNG, reading the file throws, the decoder returns no rows, writing the
\* converted file throws
FaultSets ==
    { {},
      {<<<<"a", "r", "t", "/", "a", ".", "d", "d", "s">>, "error">>},
      {<<<<"a", "r", "t", "/", "a", ".", "d", "d", "s">>, "nopng">>},
      {<<<<"a", "r", "t", "/", "a", ".", "d", "d", "s">>, "write">>},
      {<<<<"d", "a", "t", "a", "/", "x", ".", "d", "a", "t", "c", "6", "4">>, "read">>},
      {<<<<"d", "a", "t", "a", "/", "x", ".", "d", "a", "t", "c", "6", "4">>, "norows">>},
      {<<<<"d", "a", "t", "a", "/", "x", ".", "d", "a", "t", "c", "6", "4">>, "write">>},
      {<<<<"a", "r", "t", "/", "a", ".", "d", "d", "s">>, "error">>, <<<<"d", "a", "t",
          "a", "/", "x", ".", "d", "a", "t", "c", "6", "4">>, "read">>},
      {<<<<"a", "r", "t", "/", "B", ".", "D", "D", "S">>, "nopng">>, <<<<"d", "a", "t",
          "a", "/", "z", ".", "d", "a", "t", "c", "6", "4">>, "norows">>} }

FaultOf(faults, file) ==
    IF \E p \in faults : p[1] = file
    THEN (CHOOSE p \in faults : p[1] = file)[2]
    ELSE "none"

\* the surroundings of a run: the converter binary, the schema file
\* ("ok", "missing", "throws"), the faults, and whether unlink fails
Env(texconv, schema, faults, unlinkFails) ==
    [texconv |-> texconv, schema |-> schema, faults |-> faults, unlinkFails |-> unlinkFails]

FsEvent(op, file) == [op |-> op, file |-> file]

\* image-converter.ts convertDDStoWebP(ddsPath, {deleteOriginal: true,
\* skipExisting: true}): the verdict, the directory afterwards, what was done
ConvertDDStoWebP(fs, ddsPath, env) ==
    LET webpPath == WebpPath(ddsPath)
        fault == FaultOf(env.faults, ddsPath)
        no == [success |-> FALSE, fs |-> fs, events |-> <<>>]
    IN  IF webpPath \in fs                       \* lines 32-34
        THEN [success |-> TRUE, fs |-> fs, events |-> <<>>]
        ELSE IF ~env.texconv THEN no             \* lines 36-41
        ELSE IF ddsPath \notin fs THEN no        \* lines 43-45
        ELSE IF fault = "error" THEN no          \* lines 66-69
        ELSE IF fault = "nopng" THEN no          \* lines 74-76
        ELSE IF fault = "write" THEN no          \* lines 128-135
        ELSE IF env.unlinkFails                  \* lines 119-125
        THEN [success |-> TRUE, fs |-> fs \union {webpPath},
              events |-> <<FsEvent("write", webpPath)>>]
        ELSE [success |-> TRUE, fs |-> (fs \union {webpPath}) \ {ddsPath},
              events |-> <<FsEvent("write", webpPath), FsEvent("unlink", ddsPath)>>]

\* extraction-pipeline.ts lines 154-178: one table file
ParseDatFile(fs, file, parser, env) ==
    LET jsonPath == JsonPath(file)
        fault == FaultOf(env.faults, file)
        no == [parsed |-> FALSE, fs |-> fs, events |-> <<>>]
    IN  IF ~parser THEN no                                    \* line 174
        ELSE IF fault = "read" THEN no                        \* line 177
        ELSE IF TableName(file) \notin SchemaTables THEN no   \* rows: [], line 171
        ELSE IF fault = "norows" THEN no                      \* line 171
        ELSE IF fault = "write" THEN no                       \* line 177
        ELSE IF env.unlinkFails                               \* lines 165-167
        THEN [parsed |-> TRUE, fs |-> fs \union {jsonPath},
              events |-> <<FsEvent("write", jsonPath)>>]
        ELSE [parsed |-> TRUE, fs |-> (fs \union {jsonPath}) \ {file},
              events |-> <<FsEvent("write", jsonPath), FsEvent("unlink", file)>>]

----------------------------------------------------------------------------
(* extraction-pipeline.ts: runExtractionPipeline                            *)

PipelineResult(extracted, converted, imagesFailed, parsed, dataFailed) ==
    [extracted |-> extracted,
     images |-> [converted |-> converted, failed |-> imagesFailed],
     data |-> [parsed |-> parsed, failed |-> dataFailed]]

PipelineOptions(convertImages, parseDatFiles, excludeLanguages) ==
    [convertImages |-> convertImages, parseDatFiles |-> parseDatFiles,
     excludeLanguages |-> excludeLanguages]

PlRecord(at, fs, options, env) ==
    [ pc |-> at,
      fs |-> fs,                     \* the output directory once the utility has run
      options |-> options,
      env |-> env,
      ddsFiles |-> <<>>,
      datFiles |-> <<>>,
      i |-> 0,
      parser |-> FALSE,              \* parser !== null
      result |-> PipelineResult(0, 0, 0, 0, 0),
      events |-> <<>>,               \* history: writes and unlinks, in order
      counted |-> <<>> ]             \* history: which file was counted as what

Counted(file, as) == [file |-> file, as |-> as]

\* the pattern and the archive listing of the pipeline's extraction
PipelinePattern == Regex(<<".", "*">>, <<>>, {})

ArchiveListing == <<"a", "r", "t", "/", "a", ".", "d", "d", "s", "\n", "a", "r", "t", "/",
    "F", "r", "e", "n", "c", "h", "/", "a", ".", "d", "d", "s", "\n", "d", "a", "t", "a",
    "/", "x", ".", "d", "a", "t", "c", "6", "4", "\n">>

GoodRun ==
    [exitCode |-> 0, stdout |-> <<>>, stderr |-> << <<"D", "o", "n", "e", ",", " ", "2",
        "/", "2", " ", "e", "x", "t", "r", "a", "c", "t", "e", "d", ",", " ", "0", " ",
        "m", "i", "s", "s", "e", "d", ".", "\n">> >>]

\* the call of line 71: extractByPattern with convertDDS: false
PipelineExtraction(excludeLanguages, list, util) ==
    BxRecord("pattern", ByPattern(PipelinePattern, excludeLanguages, FALSE), list, util)

InitPl ==
    \* faults in single files
    \/ \E fs \in Directories, faults \in FaultSets, unlinkFails \in BOOLEAN :
          /\ Cardinality(fs) >= 4
          /\ pl = PlRecord("extracting", fs, PipelineOptions(TRUE, TRUE, TRUE),
                           Env(TRUE, "ok", faults, unlinkFails))
          /\ bx = PipelineExtraction(TRUE, [exitCode |-> 0, stdout |-> ArchiveListing],
                                     GoodRun)
    \* options and surroundings
    \/ \E fs \in Directories, convertImages \in BOOLEAN, parseDatFiles \in BOOLEAN,
          schema \in {"ok", "missing", "throws"}, texconv \in BOOLEAN :
          /\ pl = PlRecord("extracting", fs,
                           PipelineOptions(convertImages, parseDatFiles, TRUE),
                           Env(texconv, schema, {}, FALSE))
          /\ bx = PipelineExtraction(TRUE, [exitCode |-> 0, stdout |-> ArchiveListing],
                                     GoodRun)
    \* the ways the extraction itself ends
    \/ \E fs \in Directories, excludeLanguages \in BOOLEAN, listExit \in {0, 1},
          listing \in Listings, r \in Runs :
          /\ Cardinality(fs) = 5
          /\ pl = PlRecord("extracting", fs, PipelineOptions(TRUE, TRUE, excludeLanguages),
                           Env(TRUE, "ok", {}, FALSE))
          /\ bx = PipelineExtraction(excludeLanguages,
                                     [exitCode |-> listExit, stdout |-> listing], r)

IdlePl ==
    pl = PlRecord("idle", {}, PipelineOptions(TRUE, TRUE, TRUE), Env(TRUE, "ok", {}, FALSE))

\* lines 71-80: extractByPattern has settled; a rejection is not caught
PipelineExtracted ==
    /\ UNCHANGED notPlVars
    /\ pl.pc = "extracting"
    /\ bx.pc \in {"returned", "thrown"}
    /\ IF bx.pc = "thrown"
       THEN pl' = [pl EXCEPT !.pc = "thrown"]
       ELSE pl' = [pl EXCEPT !.result.extracted = bx.result.extracted,
                             !.pc = IF bx.result.extracted > 0 THEN "scan" ELSE "done"]

\* where the pipeline goes once the DDS files are done with
AfterImages(p, datFiles) ==
    IF p.options.parseDatFiles /\ Len(datFiles) > 0 THEN "schema" ELSE "done"

\* lines 82-92: the output directory is scanned
PipelineScan ==
    /\ UNCHANGED notPlVars
    /\ pl.pc = "scan"
    /\ LET files == ScanDirectory(pl.fs)
           ddsFiles == SelectSeq(files, IsDds)
           datFiles == SelectSeq(files, IsDat)
       IN  pl' = [pl EXCEPT !.ddsFiles = ddsFiles,
                            !.datFiles = datFiles,
                            !.i = 1,
                            !.pc = IF pl.options.convertImages /\ Len(ddsFiles) > 0
                                   THEN "dds" ELSE AfterImages(pl, datFiles)]

\* lines 100-120: one DDS file
PipelineConvert ==
    /\ UNCHANGED notPlVars
    /\ pl.pc = "dds"
    /\ LET file == pl.ddsFiles[pl.i]
           c == ConvertDDStoWebP(pl.fs, file, pl.env)
           last == pl.i = Len(pl.ddsFiles)
       IN  pl' = [pl EXCEPT
                    !.fs = c.fs,
                    !.events = @ \o c.events,
                    !.result.images.converted = IF c.success THEN @ + 1 ELSE @,
                    !.result.images.failed = IF c.success THEN @ ELSE @ + 1,
                    !.counted = Append(@, Counted(file, IF c.success THEN "converted"
                                                        ELSE "image failed")),
                    !.i = IF last THEN 1 ELSE @ + 1,
                    !.pc = IF last THEN AfterImages(pl, pl.datFiles) ELSE "dds"]

\* lines 133-141: the schema is loaded; a failure leaves parser null
PipelineLoadSchema ==
    /\ UNCHANGED notPlVars
    /\ pl.pc = "schema"
    /\ pl' = [pl EXCEPT !.parser = (pl.env.schema = "ok"), !.pc = "dat", !.i = 1]

\* lines 143-179: one table file
PipelineParse ==
    /\ UNCHANGED notPlVars
    /\ pl.pc = "dat"
    /\ LET file == pl.datFiles[pl.i]
           d == ParseDatFile(pl.fs, file, pl.parser, pl.env)
           last == pl.i = Len(pl.datFiles)
       IN  pl' = [pl EXCEPT
                    !.fs = d.fs,
                    !.events = @ \o d.events,
                    !.result.data.parsed = IF d.parsed THEN @ + 1 ELSE @,
                    !.result.data.failed = IF d.parsed THEN @ ELSE @ + 1,
                    !.counted = Append(@, Counted(file, IF d.parsed THEN "parsed"
                                                        ELSE "data failed")),
                    !.i = IF last THEN 1 ELSE @ + 1,
                    !.pc = IF last THEN "done" ELSE "dat"]

\* lines 183-192
PipelineReturn ==
    /\ UNCHANGED notPlVars
    /\ pl.pc = "done"
    /\ pl' = [pl EXCEPT !.pc = "returned"]

NextPl ==
    ExtractByPatternCall \/ ListAndFilter \/ SpawnExtract \/ ReadStderr \/ UtilityExited
    \/ PostProcess
    \/ PipelineExtracted \/ PipelineScan \/ PipelineConvert \/ PipelineLoadSchema
    \/ PipelineParse \/ PipelineReturn

----------------------------------------------------------------------------
(* extraction-pipeline.ts: cleanupExtractedFiles                            *)

Removed(dds, dat) == [dds |-> dds, dat |-> dat]

Pending(file, kind) == [file |-> file, kind |-> kind]

CuRecord(at, fs, unlinkFails) ==
    [ pc |-> at,
      fs |-> fs,
      before |-> fs,                 \* history: the directory when the sweep began
      unlinkFails |-> unlinkFails,
      todo |-> ScanDirectory(fs),    \* the files scanDirectory has yet to hand over
      pending |-> {},                \* unlink calls awaited by a callback
      removed |-> Removed(0, 0),     \* ddsRemoved, datRemoved
      returned |-> Removed(0, 0) ]

InitCu == \E fs \in Directories, unlinkFails \in BOOLEAN : cu = CuRecord("scanning", fs, unlinkFails)

IdleCu == cu = CuRecord("idle", {}, FALSE)

\* lines 221-245, up to the await: the callback for one file; scanDirectory
\* (line 208) does not wait for it
CleanupVisit ==
    /\ UNCHANGED notCuVars
    /\ cu.pc = "scanning"
    /\ cu.todo # <<>>
    /\ LET filePath == Head(cu.todo)
           dds == IF IsDds(filePath) /\ WebpPath(filePath) \in cu.fs
                  THEN {Pending(filePath, "dds")} ELSE {}
           dat == IF IsDat(filePath) /\ JsonPath(filePath) \in cu.fs
                  THEN {Pending(filePath, "dat")} ELSE {}
       IN  cu' = [cu EXCEPT !.todo = Tail(@), !.pending = @ \union dds \union dat]

\* lines 229-231 and 240-242, after the await: an unlink has settled. This
\* takes file-system work, so it cannot happen while the scan is still
\* handing over the files of the same directory.
CleanupUnlinkSettled ==
    /\ UNCHANGED notCuVars
    /\ \E p \in cu.pending :
          /\ \/ cu.pc = "returned"
             \/ cu.todo # <<>> /\ Dirname(Head(cu.todo)) # Dirname(p.file)
          /\ IF cu.unlinkFails \/ p.file \notin cu.fs
             THEN cu' = [cu EXCEPT !.pending = @ \ {p}]
             ELSE cu' = [cu EXCEPT !.pending = @ \ {p},
                                   !.fs = @ \ {p.file},
                                   !.removed[p.kind] = @ + 1]

\* line 247: the scan is over, the counters are returned as they are
CleanupReturn ==
    /\ UNCHANGED notCuVars
    /\ cu.pc = "scanning"
    /\ cu.todo = <<>>
    /\ cu' = [cu EXCEPT !.pc = "returned", !.returned = cu.removed]

NextCu == CleanupVisit \/ CleanupUnlinkSettled \/ CleanupReturn

----------------------------------------------------------------------------
(* backend handleAPI: the extract endpoint and the operation status endpoint *)

MaxClock == 2

MaxJobs == 2

MaxProgress == 1

\* an entry of activeOperations
Operation(status, phase) == [type |-> "extract", status |-> status, phase |-> phase]

NoOperations == [id \in {} |-> Operation("running", "indexing")]

\* activeOperations.set(opId, op)
OperationsSet(ops, opId, op) ==
    [id \in DOMAIN ops \union {opId} |-> IF id = opId THEN op ELSE ops[id]]

\* the asynchronous job an extract request starts
Job(opId) == [opId |-> opId, pc |-> "running", progress |-> 0]

\* the status an operation id was last reported with, kept without repeats
Report(reports, opId, status) ==
    LET old == IF opId \in DOMAIN reports THEN reports[opId] ELSE <<>>
    IN  IF old # <<>> /\ old[Len(old)] = status THEN reports
        ELSE OperationsSet(reports, opId, Append(old, status))

BeRecord(up) ==
    [ up |-> up,                          \* the server is serving requests
      clock |-> 1,                        \* Date.now()
      activeOperations |-> NoOperations,
      jobs |-> <<>>,                      \* the jobs started, in order
      response |-> "none",                \* the last answer of the status endpoint
      reports |-> [id \in {} |-> <<>>] ]  \* history: per id, the statuses answered

InitBe == be = BeRecord(TRUE)

IdleBe == be = BeRecord(FALSE)

\* a millisecond passes
ClockTick ==
    /\ UNCHANGED notBeVars
    /\ be.up
    /\ be.clock < MaxClock
    /\ be' = [be EXCEPT !.clock = @ + 1]

\* lines 503-512 and 548: POST extract makes the id from the clock, stores
\* the operation as running, starts the job and answers with the id
ExtractRequest ==
    /\ UNCHANGED notBeVars
    /\ be.up
    /\ Len(be.jobs) < MaxJobs
    /\ LET opId == be.clock
       IN  be' = [be EXCEPT
                    !.activeOperations =
                        OperationsSet(@, opId, Operation("running", "indexing")),
                    !.jobs = Append(@, Job(opId))]

\* line 526: the pipeline of job j reports progress
JobProgress(j) ==
    /\ UNCHANGED notBeVars
    /\ j \in DOMAIN be.jobs
    /\ be.jobs[j].pc = "running"
    /\ be.jobs[j].progress < MaxProgress
    /\ be' = [be EXCEPT
                !.activeOperations =
                    OperationsSet(@, be.jobs[j].opId, Operation("running", "extracting")),
                !.jobs[j].progress = @ + 1]

\* lines 518-537: the pipeline of job j has returned and the index is rebuilt
JobCompleted(j) ==
    /\ UNCHANGED notBeVars
    /\ j \in DOMAIN be.jobs
    /\ be.jobs[j].pc = "running"
    /\ be' = [be EXCEPT
                !.activeOperations =
                    OperationsSet(@, be.jobs[j].opId, Operation("completed", "done")),
                !.jobs[j].pc = "settled"]

\* lines 538-545: the pipeline of job j, or the rebuilding of the index, threw
JobFailed(j) ==
    /\ UNCHANGED notBeVars
    /\ j \in DOMAIN be.jobs
    /\ be.jobs[j].pc = "running"
    /\ be' = [be EXCEPT
                !.activeOperations =
                    OperationsSet(@, be.jobs[j].opId, Operation("error", "done")),
                !.jobs[j].pc = "settled"]

\* lines 558-564: GET operation/<id>
StatusRequest(opId) ==
    /\ UNCHANGED notBeVars
    /\ be.up
    /\ IF opId \notin DOMAIN be.activeOperations
       THEN be' = [be EXCEPT !.response = "Operation not found"]
       ELSE be' = [be EXCEPT
                     !.response = be.activeOperations[opId].status,
                     !.reports = Report(@, opId, be.activeOperations[opId].status)]

NextBe ==
    \/ ClockTick
    \/ ExtractRequest
    \/ \E j \in 1..MaxJobs : JobProgress(j)
    \/ \E j \in 1..MaxJobs : JobCompleted(j)
    \/ \E j \in 1..MaxJobs : JobFailed(j)
    \/ \E opId \in 1..MaxClock : StatusRequest(opId)

----------------------------------------------------------------------------
(* Specifications: one per component, the other components at rest          *)

InitSpecDat == InitDat /\ IdleGgpk /\ IdlePar /\ IdleBx /\ IdlePl /\ IdleCu /\ IdleBe

SpecDat == InitSpecDat /\ [][NextDat]_vars

InitSpecGgpk == InitGgpk /\ IdleDat /\ IdlePar /\ IdleBx /\ IdlePl /\ IdleCu /\ IdleBe

SpecGgpk == InitSpecGgpk /\ [][NextGgpk]_vars

InitSpecGgpkCyclic ==
    InitGgpkCyclic /\ IdleDat /\ IdlePar /\ IdleBx /\ IdlePl /\ IdleCu /\ IdleBe
SpecGgpkCyclic == InitSpecGgpkCyclic /\ [][NextGgpkCyclic]_vars

InitSpecPar == InitPar /\ IdleDat /\ IdleGgpk /\ IdleBx /\ IdlePl /\ IdleCu /\ IdleBe

\* the event loops of the driver and of every worker thread keep running:
\* a handler or step that stays possible is taken
ParFairness ==
    /\ WF_vars(DriverStart)
    /\ WF_vars(DriverReturn)
    /\ WF_vars(DriverReject)
    /\ \A w \in 1..MaxWorkers :
          /\ WF_vars(w \in Workers /\ WorkerInit(w))
          /\ WF_vars(w \in Workers /\ WorkerBatch(w))
          /\ WF_vars(w \in Workers /\ WorkerTaskStart(w))
          /\ WF_vars(w \in Workers /\ WorkerParseFile(w))
          /\ WF_vars(w \in Workers /\ WorkerBatchResult(w))
          /\ WF_vars(w \in Workers /\ DriverOnMessage(w))

SpecParFair == InitSpecPar /\ [][NextPar]_vars /\ ParFairness

InitSpecBatch == InitBatch /\ IdleDat /\ IdleGgpk /\ IdleBx /\ IdlePl /\ IdleCu /\ IdleBe

InitSpecBundle == InitBx /\ IdleDat /\ IdleGgpk /\ IdlePar /\ IdlePl /\ IdleCu /\ IdleBe

SpecBundle == InitSpecBundle /\ [][NextBx]_vars

InitSpecPipeline == InitPl /\ IdleDat /\ IdleGgpk /\ IdlePar /\ IdleCu /\ IdleBe

SpecPipeline == InitSpecPipeline /\ [][NextPl]_vars

InitSpecCleanup == InitCu /\ IdleDat /\ IdleGgpk /\ IdlePar /\ IdleBx /\ IdlePl /\ IdleBe

SpecCleanup == InitSpecCleanup /\ [][NextCu]_vars

InitSpecBackend ==
    InitBe /\ IdleDat /\ IdleGgpk /\ IdlePar /\ IdleBx /\ IdlePl /\ IdleCu

SpecBackend == InitSpecBackend /\ [][NextBe]_vars

SpecBatch == InitSpecBatch /\ [][NextBatch]_vars

SpecPar == InitSpecPar /\ [][NextPar]_vars

----------------------------------------------------------------------------
(* Properties of the table decoder                                          *)

\* parse got past its early returns: the table is known, row_count > 0 and
\* the marker was found
LoopEntered ==
    /\ table.known
    /\ Len(buffer) >= 4
    /\ ReadUInt32LE(buffer, 0) > 0
    /\ IndexOfMagic(buffer, 4) # -1

\* R = floor((magic_offset - 4) / row_count), from the input alone
ObservedR == (IndexOfMagic(buffer, 4) - 4) \div ReadUInt32LE(buffer, 0)

ColumnOf(e) == table.columns[e.col + 1]

LogEntries == {colLog[k] : k \in 1..Len(colLog)}

\* C1: when row_count > 0 and the marker is found, parse emits exactly
\* row_count rows in file order, and row i is decoded from offset 4 + i*R,
\* R = floor((magic_offset - 4) / row_count), whatever the schema's row size
\* is and whatever happened in earlier rows.
C1_RowsFollowObservedSize ==
    (result.returned /\ LoopEntered) =>
        LET R == ObservedR
        IN  /\ Len(result.rows) = ReadUInt32LE(buffer, 0)
            /\ result.rowCount = ReadUInt32LE(buffer, 0)
            /\ Len(rowStarts) = Len(result.rows)
            /\ \A k \in 1..Len(result.rows) :
                  result.rows[k].rid = k - 1 /\ rowStarts[k] = 4 + (k - 1) * R
            /\ \A k \in 1..Len(colLog) :
                  colLog[k].col = 0 => colLog[k].at = 4 + colLog[k].row * R

\* C1 witness: parse returned two rows of a table whose schema row size
\* differs from R, after a column of row 0 threw and the cursor overshot the row
C1_Witness ==
    /\ result.returned
    /\ LoopEntered
    /\ Len(result.rows) = 2
    /\ CalculateRowSize(table.columns) # ObservedR
    /\ \E e \in LogEntries : e.row = 0 /\ e.thrown /\ e.at + e.advance > 4 + ObservedR

ForeignRowSentinels == {I64LE(-1), I64LE(-2), Rep(254, 8)}

\* C2: a foreignrow field decodes to null when its first 8 bytes are -1, -2
\* or 0xFEFEFEFEFEFEFEFE, to the row id otherwise; the trailing 8 bytes play
\* no part (the value is a function of the first 8 bytes).
C2_ForeignRowNulls ==
    \A e \in LogEntries :
        (~ColumnOf(e).array /\ ColumnOf(e).type = "foreignrow" /\ ~e.thrown) =>
            LET first8 == Bytes(buffer, e.at, 8)
            IN  /\ e.advance = 16
                /\ e.value = IF first8 \in ForeignRowSentinels THEN Null
                             ELSE ToNumber(AsIntN64(first8))

NegativeI64(bs) == bs[8] >= 128
RowSentinels == {I64LE(-1), Rep(254, 8)}

\* what C3 asks of one 8-byte field of the given type and its decoded value
SentinelIsNull(type, bs, value) ==
    /\ (type = "string" /\ NegativeI64(bs)) => value = Null
    /\ (type = "row" /\ bs \in RowSentinels) => value = Null

\* where the elements of an array field start: marker offset + recorded offset
ElementsStart(e) == IndexOfMagic(buffer, 4) + MagVal(Bytes(buffer, e.at + 8, 8))

\* the k-th 8-byte element of the array field logged as e
ElementBytes(e, k) == Bytes(buffer, ElementsStart(e) + 8 * (k - 1), 8)

\* C3: sentinel-encoded nulls decode to null, never to "" or to a number: a
\* string with negative offset, a row of -1 or 0xFEFEFEFEFEFEFEFE, in the
\* fixed region as well as in array elements.
C3_SentinelsDecodeToNull ==
    \A e \in LogEntries :
        (~e.thrown /\ ColumnOf(e).type \in {"string", "row"}) =>
            IF ColumnOf(e).array
            THEN LET first == ElementsStart(e)
                 IN  \A k \in 1..Len(e.value.v) :
                        SentinelIsNull(ColumnOf(e).type,
                                       Bytes(buffer, first + 8 * (k - 1), 8),
                                       e.value.v[k])
            ELSE SentinelIsNull(ColumnOf(e).type, Bytes(buffer, e.at, 8), e.value)

\* C3 witness: one decode with a negative-offset string in the fixed region
\* and an array of rows holding both row sentinels, all decoded to null
C3_Witness ==
    /\ \E e \in LogEntries :
          /\ ~ColumnOf(e).array /\ ColumnOf(e).type = "string"
          /\ NegativeI64(Bytes(buffer, e.at, 8)) /\ e.value = Null
    /\ \E e \in LogEntries :
          /\ ColumnOf(e).array /\ ColumnOf(e).type = "row" /\ ~e.thrown
          /\ Len(e.value.v) = 3
          /\ ElementBytes(e, 1) = I64LE(-1) /\ e.value.v[1] = Null
          /\ ElementBytes(e, 2) = Rep(254, 8) /\ e.value.v[2] = Null
          /\ e.value.v[3] = Val("num", 5)

\* C4: when the schema's row size differs from R, parse returns all row_count
\* rows together with a non-empty warning text.
C4_MismatchWarned ==
    (result.returned /\ LoopEntered /\ CalculateRowSize(table.columns) # ObservedR) =>
        /\ Len(result.rows) = ReadUInt32LE(buffer, 0)
        /\ result.error # ""

\* the recorded length of an array field is negative or above 100 000
LengthOutOfBounds(bs) ==
    \/ NegativeI64(bs)
    \/ \E k \in 5..8 : bs[k] # 0
    \/ bs[4] >= 128
    \/ MagVal(bs) > 100000

\* C5: no decoded array has more than 100 000 elements; a recorded length
\* that is negative or above 100 000 decodes to the empty list; an array
\* field always consumes 16 bytes of the fixed region.
C5_ArrayBound ==
    \A e \in LogEntries :
        ColumnOf(e).array =>
            /\ e.advance = 16
            /\ ~e.thrown =>
                 /\ e.value.t = "list"
                 /\ Len(e.value.v) <= 100000
                 /\ LengthOutOfBounds(Bytes(buffer, e.at, 8)) => e.value.v = <<>>

\* C5 witness: an array of a valid element type with recorded length 100 001
\* and an offset that points at data inside the buffer decoded to []
C5_Witness ==
    \E e \in LogEntries :
        /\ ColumnOf(e).array /\ ColumnOf(e).type = "row" /\ ~e.thrown
        /\ Bytes(buffer, e.at, 8) = I64LE(100001)
        /\ Bytes(buffer, e.at + 8, 8) = I64LE(8)
        /\ IndexOfMagic(buffer, 4) + 8 + 8 <= Len(buffer)
        /\ e.value = Val("list", <<>>)
        /\ e.advance = 16

----------------------------------------------------------------------------
(* Properties of the container reader                                       *)

Raw(o) == archive.records[o]

Decodes(o) == ReadRecord(archive, o).ok

\* the directories that decode, and the one that lists o among its entries
DirOffsets == {o \in DOMAIN archive.records : Decodes(o) /\ Raw(o).tag = "PDIR"}
ChildrenOf(d) == {Raw(d).entries[k] : k \in 1..Len(Raw(d).entries)}
Parent(o) == CHOOSE d \in DirOffsets : o \in ChildrenOf(d)

\* names of the directories from the first record down to the parent of o
RECURSIVE AncestorNames(_)
AncestorNames(o) ==
    IF o = archive.firstRecordOffset THEN <<>>
    ELSE AncestorNames(Parent(o)) \o <<Raw(Parent(o)).name>>

NotRoot(name) == name # "ROOT"

RECURSIVE Join(_)
Join(segs) == IF Len(segs) = 1 THEN segs[1] ELSE segs[1] \o "/" \o Join(Tail(segs))

\* the path C6 gives a FILE record: ancestors not named ROOT, then its name
ClaimedPath(o) == Join(SelectSeq(AncestorNames(o), NotRoot) \o <<Raw(o).name>>)

\* C6: the path of every FILE record is the '/'-joined names of its ancestor
\* directories except those named ROOT, followed by its own name; a ROOT
\* directory removes only its own segment.
C6_PathIsJoinedAncestors ==
    \A p \in DOMAIN index : p = ClaimedPath(index[p].offset)

\* offsets reached from the first record through directories that decode
RECURSIVE ReachFrom(_)
ReachFrom(S) ==
    LET next == S \cup UNION {ChildrenOf(d) : d \in S \cap DirOffsets}
    IN  IF next = S THEN S ELSE ReachFrom(next)

ReachableFiles ==
    {o \in ReachFrom({archive.firstRecordOffset}) :
        o \in DOMAIN archive.records /\ Decodes(o) /\ Raw(o).tag = "FILE"}

IndexedOffsets == {index[p].offset : p \in DOMAIN index}

\* C7: a record that fails to decode (length < 8, unknown tag, child offset
\* outside the archive) costs only its own subtree: build_index does not
\* fail and every FILE reachable through records that decode is indexed.
C7_FailureIsLocal ==
    /\ archive.magic = "GGPK" => gpc # "failed"
    /\ gpc = "indexed" => ReachableFiles \subseteq IndexedOffsets

\* C7 witness: the root's second entry failed to decode (it points outside
\* the archive) and the files of the third entry's subtree are indexed
C7_Witness ==
    /\ gpc = "indexed"
    /\ errorLog = <<OffOutside>>
    /\ {OffA, OffE, OffG, OffH} \subseteq IndexedOffsets

\* bs - n for a little-endian magnitude, by schoolbook borrow
RECURSIVE SubBytes(_, _)
SubBytes(bs, n) ==
    IF bs = <<>> THEN <<>>
    ELSE LET t == Head(bs) - (n % 256)
             borrow == IF t < 0 THEN 1 ELSE 0
         IN  <<t + 256 * borrow>> \o SubBytes(Tail(bs), (n \div 256) + borrow)

\* C8: a FILE record at offset O with total length L and name length N has
\* payload offset O + 8 + 4 + 32 + 2N (64-bit, also for O >= 2^32) and
\* payload length L - (8 + 4 + 32 + 2N).
C8_PayloadArithmetic ==
    \A p \in DOMAIN index :
        LET d == index[p]
            header == 8 + 4 + 32 + 2 * Raw(d.offset).nameLength
        IN  /\ ~d.dataOffset.neg
            /\ SubBytes(d.dataOffset.mag, header) = d.offset.mag
            /\ d.dataLength = Raw(d.offset).length - header
            /\ d.length = Raw(d.offset).length

\* at or above 2^32
Beyond4GiB(b) == \E k \in 5..8 : b.mag[k] # 0

\* C8 witness: the index holds a file whose record lies above 2^32 and a
\* file whose header straddles 2^32
C8_Witness ==
    /\ \E p \in DOMAIN index : Beyond4GiB(index[p].offset)
    /\ \E p \in DOMAIN index : ~Beyond4GiB(index[p].offset) /\ Beyond4GiB(index[p].dataOffset)

RECURSIVE SumLen(_)
SumLen(ps) == IF ps = <<>> THEN 0 ELSE Head(ps).len + SumLen(Tail(ps))

\* the pieces written are the archive bytes [dataOffset, dataOffset +
\* dataLength), in order, each range once, in reads of at most 50 MiB: one
\* read when the payload is at most 50 MiB
ExactCopy ==
    /\ xpc = "done"
    /\ SumLen(written) = xDesc.dataLength
    /\ written # <<>> => written[1].from = xDesc.dataOffset
    /\ \A k \in 1..Len(written) :
          /\ ~written[k].short
          /\ written[k].len <= 50 * 1024 * 1024
          /\ k > 1 => /\ ~written[k].from.neg
                      /\ SubBytes(written[k].from.mag, written[k - 1].len)
                           = written[k - 1].from.mag
    /\ xDesc.dataLength <= 50 * 1024 * 1024 => Len(written) = 1
    /\ xDesc.dataLength > 50 * 1024 * 1024 =>
          \A k \in 1..Len(written) : written[k].len > 0

PayloadInsideArchive(d) ==
    /\ d.dataLength >= 0
    /\ MagLE(AddBytes(d.offset.mag, d.length), archive.size.mag)

----------------------------------------------------------------------------
(* Properties of the parallel decode: the cache                             *)

\* the parseFile calls of the run in progress
Calls == {parseLog[i] : i \in {j \in DOMAIN parseLog : parseLog[j].run = run}}

\* the output JSON exists and is not older than the input
Fresh(f) == f.outExists /\ f.outMtime >= f.inMtime

Reported == {AllResults[i] : i \in DOMAIN AllResults}

CountIn(results, P(_)) == Cardinality({i \in DOMAIN results : P(results[i])})

IsCachedResult(r) == r.cached
IsSuccessResult(r) == r.cached \/ r.success

\* a cached call parses nothing, writes nothing and leaves the files as found;
\* the returned statistics count every cached result under cached and success
CachedIsFree ==
    /\ \A c \in Calls :
          c.result.cached => ~c.decoded /\ ~c.wrote /\ disk[c.name] = c.file
    /\ dpc = "returned" =>
          /\ \A c \in Calls : c.result \in Reported
          /\ stats.cached = CountIn(AllResults, IsCachedResult)
          /\ stats.success = CountIn(AllResults, IsSuccessResult)

NeverCachedWhenUnset == ~UseCache => \A c \in Calls : ~c.result.cached

\* C10 (as stated): with use_cache set a task is reported cached exactly when
\* its output JSON exists and is not older than its input; a cached task is
\* not decoded, its output is not written, and it is counted in both cached
\* and success; with use_cache unset no task is reported cached.
C10_CachedExactlyWhenFresh ==
    /\ UseCache => \A c \in Calls : c.result.cached <=> Fresh(c.file)
    /\ CachedIsFree
    /\ NeverCachedWhenUnset

\* C10 (amended): with use_cache set a task whose table has a schema is
\* reported cached exactly when its output JSON exists and is not older than
\* its input, and a task whose table has no schema is never reported cached;
\* a cached task is not decoded, its output is not written, and it is counted
\* in both cached and success; with use_cache unset no task is reported cached.
C10_CachedExactlyWhenFreshWithSchema ==
    /\ UseCache =>
          \A c \in Calls :
             /\ tables[c.name].schema => (c.result.cached <=> Fresh(c.file))
             /\ ~tables[c.name].schema => ~c.result.cached
    /\ CachedIsFree
    /\ NeverCachedWhenUnset

\* a returned run with the cache on: one table cached on equal modification
\* times, another decoded because its output was older than its input
C10_Witness ==
    /\ dpc = "returned"
    /\ UseCache
    /\ \E c \in Calls : c.result.cached /\ c.file.outMtime = c.file.inMtime
    /\ \E c \in Calls : c.file.outExists /\ ~Fresh(c.file) /\ c.decoded /\ c.wrote
    /\ stats.cached = 1
    /\ stats.success = 2

----------------------------------------------------------------------------
(* Properties of the parallel decode: a second run                          *)

\* the parseFile call of an earlier run for the same table
FirstCall(c) == CHOOSE d \in {parseLog[i] : i \in DOMAIN parseLog} :
                   d.run = 1 /\ d.name = c.name

SkipErrors == {"No schema", "Empty file", "File too large"}

\* C11 (as stated): in a second run with use_cache set every task reports
\* cached:true, nothing is decoded and no output JSON is written.
C11_SecondRunAllCached ==
    (run = 2 /\ UseCache) =>
       \A c \in Calls : c.result.cached /\ ~c.decoded /\ ~c.wrote

\* C11 (amended): in a second run with use_cache set every task that the
\* first run reported cached, or decoded successfully while its input's
\* modification time was not ahead of the clock, reports cached:true, is not
\* decoded again and its output JSON is not rewritten; a task the first run
\* skipped (no schema, empty, too large) is skipped again with the same
\* result, neither decoded nor written.
C11_SecondRunCachedWhereFirstSucceeded ==
    (run = 2 /\ UseCache) =>
       \A c \in Calls :
          LET first == FirstCall(c)
          IN  /\ (first.result.cached
                  \/ (first.result.success /\ first.file.inMtime <= now - 1))
                 => (c.result.cached /\ ~c.decoded /\ ~c.wrote
                     /\ disk[c.name].outMtime = c.file.outMtime)
              /\ (~first.result.success /\ first.result.error \in SkipErrors)
                 => (c.result = first.result /\ ~c.decoded /\ ~c.wrote)

\* a second run has returned with every table cached, one of them decoded
\* and written by the first run
C11_Witness ==
    /\ run = 2
    /\ dpc = "returned"
    /\ UseCache
    /\ Len(Tasks) >= 2
    /\ stats.cached = Len(Tasks)
    /\ \E i \in DOMAIN parseLog : parseLog[i].run = 1 /\ parseLog[i].wrote

----------------------------------------------------------------------------
(* Properties of the batching                                               *)

\* the loop builds what the driver hands to its workers
BatchesAsDriverMakesThem ==
    dpc = "batched" => batches = MakeBatches(Tasks, opts.concurrency)

\* C12: N >= 1 tasks at concurrency c >= 1 are split into exactly min(c, N)
\* batches, each of at most ceil(N / min(c, N)) tasks.
C12_BatchCountIsMin ==
    dpc = "batched" =>
       LET N == Len(Tasks)
           m == Min(opts.concurrency, N)
       IN  /\ Len(batches) = m
           /\ \A b \in DOMAIN batches : Len(batches[b]) <= CeilDiv(N, m)

----------------------------------------------------------------------------
(* Properties of the parallel decode: skipped and failed tasks              *)

\* the input is empty or larger than 100 MiB, or the table has no schema
Clamped(k) == disk[k].size = 0 \/ disk[k].size > MaxFileSize \/ ~tables[k].schema

\* C13: a task whose input has size 0 or more than 100 MiB, or whose table
\* has no schema, is not decoded, gets no output JSON written, and is counted
\* by the driver under skipped, not under failed.
C13_ClampedTasksAreSkipped ==
    /\ \A c \in Calls : Clamped(c.name) => ~c.decoded /\ ~c.wrote
    /\ dpc = "returned" =>
          stats.skipped = Cardinality({k \in DOMAIN disk : Clamped(k)})

\* the call got as far as reading the input: schema present, no cache hit,
\* input neither empty nor oversized
ReachedIO(c) ==
    /\ tables[c.name].schema
    /\ ~(c.checkCache /\ Fresh(c.file))
    /\ c.file.size # 0
    /\ c.file.size <= MaxFileSize

\* worker w has sent an 'error' message or has crashed
WorkerFailed(w) ==
    \E i \in DOMAIN msgLog[w] : msgLog[w][i].type \in {"error", "crash"}

\* reading the input, serialising the rows or writing the output threw
Threw(c) == tables[c.name].io # "ok"

\* the decoder itself reported an error in its result
DecodeReportedError(c) == tables[c.name].parseError # ""

\* a worker that has posted its batch result has a result for every task of
\* its batch, in order
WorkerGoesOn ==
    \A w \in DOMAIN wk :
       wk[w].st = "finished" =>
          /\ Len(wk[w].results) = Len(batches[w])
          /\ \A i \in DOMAIN batches[w] : wk[w].results[i].tableName = batches[w][i]

\* once a worker has sent 'error' or crashed the driver never returns
\* aggregate counts, and when it has handled that event the call is rejected
DriverRejects ==
    \A w \in DOMAIN msgLog :
       WorkerFailed(w) =>
          /\ dpc # "returned"
          /\ promise[w] # "resolved"
          /\ (toDriver[w] = <<>> /\ dpc # "rejected") =>
                (dpc = "waiting" /\ promise[w] = "rejected")

\* C14 (as stated): a decode or I/O failure on a task gives that task a
\* {success: false, error} result, the worker goes on with the rest of its
\* batch, and a worker 'error' message or crash makes the driver call fail.
C14_AnyFailureIsUnsuccessful ==
    /\ \A c \in Calls :
          (ReachedIO(c) /\ (Threw(c) \/ DecodeReportedError(c))) =>
             (~c.result.success /\ c.result.error # "")
    /\ WorkerGoesOn
    /\ DriverRejects

\* C14 (amended): an exception while reading, serialising or writing a task
\* gives that task, and no other, a {success: false, error} result and no
\* output; an error that the decoder reports in its result leaves the task
\* success: true with the error text attached; the worker goes on with the
\* rest of its batch; a worker 'error' message or crash makes the driver
\* call fail instead of returning aggregate counts.
C14_FailureIsPerTask ==
    /\ \A c \in Calls :
          ReachedIO(c) =>
             IF Threw(c)
             THEN ~c.result.success /\ c.result.error # "" /\ ~c.result.cached /\ ~c.wrote
             ELSE c.result.success /\ c.result.error = tables[c.name].parseError
    /\ WorkerGoesOn
    /\ DriverRejects

\* a worker's read failed on one table, the same worker then finished another
\* table successfully, later it crashed and the driver's call was rejected
C14_Witness ==
    /\ dpc = "rejected"
    /\ \E w \in DOMAIN msgLog : WorkerFailed(w)
    /\ \E i, j \in DOMAIN parseLog :
          /\ i < j
          /\ parseLog[i].worker = parseLog[j].worker
          /\ ~parseLog[i].result.success
          /\ parseLog[i].result.error = "read error"
          /\ parseLog[j].result.success

----------------------------------------------------------------------------
(* Properties of the bundle extractor                                       *)

\* the utility's stdout and stderr, combined
CombinedOutput == bx.stdout \o <<"\n">> \o bx.emitted

\* a count written in decimal
Decimal(n) == IF n < 10 THEN <<DigitChars[n + 1]>>
              ELSE <<DigitChars[(n \div 10) + 1], DigitChars[(n % 10) + 1]>>

SummaryLine(x, y, z) ==
    <<"D", "o", "n", "e", ",", " ">> \o Decimal(x) \o <<"/">> \o Decimal(y) \o <<" ", "e",
        "x", "t", "r", "a", "c", "t", "e", "d", ",", " ">> \o Decimal(z) \o <<" ", "m",
        "i", "s", "s", "e", "d">>

MaxSummaryCount == 15

\* C15: extract_by_paths fails exactly when the utility exits non-zero and
\* its combined output lacks 'Done,'; otherwise it returns, and when the
\* output contains 'Done, X/Y extracted, Z missed' it returns {X, Y, Z}.
C15_FailsOnlyWithoutSentinel ==
    bx.entry = "paths" =>
       LET failed == bx.exitCode # 0 /\ ~Includes(CombinedOutput, <<"D", "o", "n", "e",
           ",">>)
       IN  /\ bx.pc = "thrown" => failed
           /\ bx.pc = "returned" =>
                 /\ ~failed
                 /\ \A x, y \in 0..MaxSummaryCount, z \in 0..3 :
                       Includes(CombinedOutput, SummaryLine(x, y, z)) =>
                          bx.result = ExtractionResult(x, y, z)

\* the utility exited non-zero after printing 'Done, 12/15 extracted, 3 missed'
\* in two chunks: the call returned the three counts
C15_Witness ==
    /\ bx.entry = "paths"
    /\ bx.pc = "returned"
    /\ bx.exitCode # 0
    /\ Includes(CombinedOutput, SummaryLine(12, 15, 3))
    /\ bx.result = ExtractionResult(12, 15, 3)

\* C16: with exclude_languages set every path handed to the extractor is a
\* listed path that matches the request's regex and contains none of the
\* fixed language patterns, compared case-insensitively; the utility is given
\* exact paths, so nothing else is extracted.
C16_NoLanguagePathHanded ==
    (bx.entry = "pattern" /\ bx.excludeLanguages /\ bx.spawned) =>
       /\ ~bx.useRegex
       /\ \A i \in DOMAIN bx.patterns :
             LET f == bx.patterns[i]
             IN  /\ \E k \in DOMAIN ListedFiles(bx.listing) : ListedFiles(bx.listing)[k] = f
                 /\ PatternRegexTest(bx.pattern, f)
                 /\ \A k \in DOMAIN NON_ENGLISH_PATTERNS :
                       ~Includes(ToLowerCase(f), NON_ENGLISH_PATTERNS[k])

\* a call by pattern with exclude_languages returned after extracting, and
\* the listing held a path that matches the regex but lies under a language
C16_Witness ==
    /\ bx.entry = "pattern"
    /\ bx.excludeLanguages
    /\ bx.pc = "returned"
    /\ bx.spawned
    /\ Len(bx.patterns) >= 1
    /\ \E k \in DOMAIN ListedFiles(bx.listing) :
          /\ PatternRegexTest(bx.pattern, ListedFiles(bx.listing)[k])
          /\ LangRegexTest(ListedFiles(bx.listing)[k])

----------------------------------------------------------------------------
(* Properties of the extraction pipeline and of the cleanup sweep           *)

\* the file of the same base name with another extension
Sibling(file, ext) == SubSeq(file, 1, Len(file) - Len(ExtName(file))) \o ext

CountedAs(as) == {pl.counted[k].file : k \in {j \in DOMAIN pl.counted : pl.counted[j].as = as}}

\* file was unlinked, and only after its converted sibling had been written
UnlinkedAfterWrite(file, sibling) ==
    \E k \in DOMAIN pl.events :
       /\ pl.events[k] = FsEvent("unlink", file)
       /\ \E j \in 1..(k - 1) : pl.events[j] = FsEvent("write", sibling)

\* C17: after the pipeline returns, every DDS counted as converted and every
\* table file counted as parsed has been deleted, after its sibling (.webp,
\* .json) was written, and the sibling exists; a file counted as failed is
\* still in place.
C17_CountedFilesAreReplaced ==
    pl.pc = "returned" =>
       /\ \A f \in CountedAs("converted") :
             /\ f \notin pl.fs
             /\ Sibling(f, <<".", "w", "e", "b", "p">>) \in pl.fs
             /\ UnlinkedAfterWrite(f, Sibling(f, <<".", "w", "e", "b", "p">>))
       /\ \A f \in CountedAs("parsed") :
             /\ f \notin pl.fs
             /\ Sibling(f, <<".", "j", "s", "o", "n">>) \in pl.fs
             /\ UnlinkedAfterWrite(f, Sibling(f, <<".", "j", "s", "o", "n">>))
       /\ \A f \in CountedAs("image failed") \union CountedAs("data failed") : f \in pl.fs

\* C18: no failure of a stage makes runExtractionPipeline throw: it returns
\* its metrics, and every DDS and table file found by the scan has been
\* counted as converted, parsed or failed.
C18_FailuresAreCountedNeverThrown ==
    /\ pl.pc # "thrown"
    /\ pl.pc = "returned" =>
          /\ pl.options.convertImages =>
                pl.result.images.converted + pl.result.images.failed = Len(pl.ddsFiles)
          /\ pl.options.parseDatFiles =>
                pl.result.data.parsed + pl.result.data.failed = Len(pl.datFiles)

\* C19: the sweep deletes a file only if it is a .dds with a sibling .webp or
\* a table binary with a sibling .json, and, once every unlink has settled,
\* it has deleted each such file.
C19_SweepDeletesOnlyConverted ==
    LET deletable(f) == \/ IsDds(f) /\ Sibling(f, <<".", "w", "e", "b", "p">>) \in cu.before
                        \/ IsDat(f) /\ Sibling(f, <<".", "j", "s", "o", "n">>) \in cu.before
    IN  /\ \A f \in cu.before \ cu.fs : deletable(f)
        /\ (cu.pc = "returned" /\ cu.pending = {} /\ ~cu.unlinkFails) =>
              \A f \in cu.before : deletable(f) => f \notin cu.fs

----------------------------------------------------------------------------
(* Properties of the backend's operations                                   *)

\* C20: whatever the interleaving of requests, the status endpoint reports
\* an operation as 'running' first and changes its answer at most once, to
\* 'completed' or to 'error'; after that it never reports 'running' again.
C20_StatusSettlesOnce ==
    \A opId \in DOMAIN be.reports :
       be.reports[opId] \in { <<"running">>, <<"completed">>, <<"error">>,
                              <<"running", "completed">>, <<"running", "error">> }

----------------------------------------------------------------------------
(* Properties of the worker protocol                                        *)

LogEntry(dir, type, count, file) == [dir |-> dir, type |-> type, count |-> count, file |-> file]

\* the two progress messages of every task of a batch, in list order
ProgressOf(batch) ==
    Flatten([i \in 1..Len(batch) |-> << LogEntry("toDriver", "progress", 0, batch[i]),
                                        LogEntry("toDriver", "progress", 1, batch[i]) >>])

\* everything that passes between the driver and worker w when nothing fails
Protocol(w) ==
    << LogEntry("toWorker", "init", 0, 0), LogEntry("toDriver", "ready", 0, 0),
       LogEntry("toWorker", "batch", 0, 0) >>
    \o ProgressOf(batches[w])
    \o << LogEntry("toDriver", "batch-result", 0, 0) >>

IsPrefix(s, t) == Len(s) <= Len(t) /\ \A i \in DOMAIN s : s[i] = t[i]

\* the messages of worker w so far, without a closing 'error' or crash event
BeforeFailure(w) ==
    LET log == msgLog[w]
    IN  IF log # <<>> /\ log[Len(log)].type \in {"error", "crash"}
        THEN SubSeq(log, 1, Len(log) - 1)
        ELSE log

\* C21: for every worker the messages run init, ready, batch, then for each
\* task of its batch in list order a progress with count 0 and one with count
\* 1, then one batch-result and nothing after it; the batch is sent only once
\* ready has been received, and a worker whose batch was accepted has sent
\* all of this.
C21_MessagesFollowProtocol ==
    \A w \in DOMAIN msgLog :
       /\ IsPrefix(BeforeFailure(w), Protocol(w))
       /\ (\E i \in DOMAIN msgLog[w] : msgLog[w][i].type = "batch") =>
             \E i \in DOMAIN msgLog[w] : msgLog[w][i].type = "ready"
       /\ promise[w] = "resolved" => msgLog[w] = Protocol(w)

\* two workers have delivered their batches, one of them of two tasks
C21_Witness ==
    /\ dpc = "returned"
    /\ Len(batches) = 2
    /\ Len(batches[1]) = 2
    /\ \A w \in DOMAIN msgLog : promise[w] = "resolved" /\ msgLog[w] = Protocol(w)
    /\ Len(msgLog[1]) = 8

----------------------------------------------------------------------------
(* Termination of the parallel driver                                       *)

\* C22: with the driver's and the workers' event loops running, every call
\* of the parallel driver ends, whatever the interleaving of the workers'
\* messages: it returns, and then every worker has delivered its
\* batch-result, or it fails.
C22_EveryCallCompletes ==
    /\ [](dpc = "returned" => \A w \in Workers : promise[w] = "resolved")
    /\ \A r \in 1..MaxRuns :
          (run = r /\ dpc = "start") ~> (run = r /\ dpc \in {"returned", "rejected"})

\* a call over two workers has returned after both delivered
C22_Witness ==
    /\ dpc = "returned"
    /\ Len(batches) = 2
    /\ \A w \in Workers : promise[w] = "resolved" /\ wk[w].st = "terminated"

----------------------------------------------------------------------------
(* Archives whose directory entries form a cycle                            *)

\* the offsets buildIndex has called traverse on, each counted once
Visited == {visitLog[k] : k \in 1..Len(visitLog)}

\* C23: traversal is guarded against cyclic references: it ends on every
\* archive, also when a directory entry points at the directory itself or at
\* an ancestor, and it visits each record offset at most once.
C23_EachOffsetVisitedOnce == Len(visitLog) = Cardinality(Visited)

----------------------------------------------------------------------------
(* Strings of the variable region                                           *)

\* the string columns decoded so far whose stored offset is not negative
StringReads ==
    {k \in 1..Len(colLog) :
        /\ ColumnOf(colLog[k]) = Col("string")
        /\ InRange(buffer, colLog[k].at, 8)
        /\ ~ReadBigInt64LE(buffer, colLog[k].at).neg}

\* the absolute position entry k is read at: the marker's position plus the
\* stored offset (beyond every buffer when the offset does not fit)
StringPosition(k) ==
    LET o == ReadBigInt64LE(buffer, colLog[k].at)
    IN  IF Fits31(o.mag) THEN magicIndex + MagVal(o.mag) ELSE Len(buffer)

\* positions at 2-byte steps from p that hold 4 zero bytes
Terminators(p) ==
    {q \in p..(Len(buffer) - 4) : (q - p) % 2 = 0 /\ Bytes(buffer, q, 4) = <<0, 0, 0, 0>>}

FirstTerminator(p) == CHOOSE q \in Terminators(p) : \A t \in Terminators(p) : q <= t

\* C24: a string field with non-negative offset o is read at the marker's
\* position plus o; its value is the code units from there up to the first
\* position, in 2-byte steps, that holds 4 zero bytes, so that a single zero
\* code unit does not end it; a position at or beyond the end of the buffer
\* gives the empty string and no error.
C24_StringReadAtMarkerPlusOffset ==
    \A k \in StringReads :
        LET p == StringPosition(k)
        IN  /\ ~colLog[k].thrown
            /\ colLog[k].value.t = "str"
            /\ p >= Len(buffer) => colLog[k].value.v = <<>>
            /\ (p < Len(buffer) /\ Terminators(p) # {}) =>
                  colLog[k].value.v = CodeUnits(buffer, p, FirstTerminator(p))

\* one row holds the string 'h', 0, 'i' (offset 8, a zero code unit in the
\* middle) and a string whose offset lies beyond the buffer
C24_Witness ==
    /\ result.returned
    /\ \E k \in StringReads : colLog[k].value.v = <<104, 0, 105>>
    /\ \E k \in StringReads :
          /\ StringPosition(k) >= Len(buffer)
          /\ colLog[k].value.v = <<>>
          /\ colLog[k].row = 0

----------------------------------------------------------------------------
(* A column whose read throws                                               *)

\* the columns decoded so far whose read threw
ThrownReads == {k \in 1..Len(colLog) : colLog[k].thrown}

\* row r has been pushed to rows
Emitted(r) == Len(rows) > r

\* C25: when decoding a column throws, its value is null, the cursor moves on
\* by the column's nominal size (16 for an array), the following columns of
\* the row are still decoded in order and the row is emitted; the failure
\* neither drops the row nor ends the decode of the table.
C25_ThrowingColumnKeepsRow ==
    \A k \in ThrownReads :
        LET e == colLog[k]
        IN  /\ e.value = Null
            /\ e.advance = ColSize(ColumnOf(e))
            /\ rowIdx > e.row => Emitted(e.row)
            /\ Emitted(e.row) => Len(rows[e.row + 1].cols) = Len(table.columns)
            /\ pc = "done" => (result.error = "" /\ Len(result.rows) = rowCount)

----------------------------------------------------------------------------
(* The fixed-region window of a row                                         *)

\* bytes of the fixed region a column's decoder reads at the cursor
\* (readField reads only the first 8 of a foreignrow's 16)
FixedBytesRead(col) ==
    IF col.array THEN 16
    ELSE IF col.type = "foreignrow" THEN 8
    ELSE FieldSize(col.type)

\* C26: decoding row i reads fixed-region bytes only inside the row's window
\* [4 + i*R, 4 + (i+1)*R): no column value comes from bytes of the next row
\* or of the marker, also when the schema's row size is larger than R.
C26_ColumnsReadInsideRowWindow ==
    \A k \in 1..Len(colLog) :
        LET e == colLog[k]
        IN  ~e.thrown =>
               /\ 4 + e.row * rowSize <= e.at
               /\ e.at + FixedBytesRead(ColumnOf(e)) <= 4 + (e.row + 1) * rowSize

----------------------------------------------------------------------------
(* Batches and statistics of a run that returns                             *)

\* C27: in a parallel run that returns, every task file belongs to exactly
\* one worker batch (the batches are disjoint, cover the task list and keep
\* its order) and yields exactly one result, so that success + failed +
\* skipped is the number of task files and cached <= success.
C27_OneBatchOneResultPerTask ==
    dpc = "returned" =>
        /\ Flatten(batches) = Tasks
        /\ \A b \in 1..Len(batches) : batches[b] # <<>>
        /\ Len(Tasks) > 0 =>
              /\ Len(AllResults) = Len(Tasks)
              /\ \A k \in 1..Len(Tasks) : AllResults[k].tableName = Tasks[k]
        /\ stats.success + stats.failed + stats.skipped = Len(Tasks)
        /\ stats.cached <= stats.success

\* three tables in two batches: one decoded, one taken from the cache, one
\* without schema
C27_Witness ==
    /\ dpc = "returned"
    /\ batches = <<<<1, 2>>, <<3>>>>
    /\ stats.success = 2 /\ stats.cached = 1 /\ stats.skipped = 1 /\ stats.failed = 0

----------------------------------------------------------------------------
(* Workers at the end of a call                                             *)

\* C28: when a call of the parallel driver completes, by returning or by
\* failing because a worker reported an error, every worker it spawned has
\* been terminated: none keeps decoding or writing output files after the
\* call has finished.
C28_WorkersTerminatedAtCompletion ==
    dpc \in {"returned", "rejected"} => \A w \in Workers : wk[w].st = "terminated"

----------------------------------------------------------------------------
(* Operation ids                                                            *)

\* C29: two requests to the extract endpoint always get distinct operation
\* ids, whatever their arrival times, so that what is recorded for one
\* operation is never overwritten by another.
C29_OperationIdsDistinct ==
    /\ \A i, j \in DOMAIN be.jobs : i # j => be.jobs[i].opId # be.jobs[j].opId
    /\ \A j \in DOMAIN be.jobs :
          be.jobs[j].pc = "settled" =>
             be.activeOperations[be.jobs[j].opId].status \in {"completed", "error"}

----------------------------------------------------------------------------
(* The counts the cleanup returns                                           *)

\* the files of one kind that are gone since the sweep began
Deleted(kind) ==
    {f \in cu.before \ cu.fs : IF kind = "dds" THEN IsDds(f) ELSE IsDat(f)}

\* C30: when the cleanup returns, every deletion it started has completed
\* and the counts it returns are the numbers of files it deleted.
C30_ReturnsAfterDeletions ==
    cu.pc = "returned" =>
        /\ cu.pending = {}
        /\ cu.returned.dds = Cardinality(Deleted("dds"))
        /\ cu.returned.dat = Cardinality(Deleted("dat"))

============================================================================
